---------------------------- MODULE Spec2Model ----------------------------
(***************************************************************************)
(* A model of the preflop trainer of PPC-Trainer (src/trainer_module.py,   *)
(* with the range evaluation of src/appV3.py).                              *)
(*                                                                         *)
(* Conventions of the translation                                          *)
(*  - Python None is the empty tuple None, a present value x is Some(x).   *)
(*  - A Python str that the code takes apart is a tuple of its parts: a    *)
(*    hand string is the tuple of its characters ("AKs" is <<"A","K","s">>)*)
(*    and a spot key is the tuple of the segments its underscores separate *)
(*    ("6-max_BTN_100_open" is <<"6-max","BTN","100","open">>).            *)
(*  - A Python list is a sequence, a dict is a function on its keys.       *)
(*  - A float weight is an integer number of tenths.                       *)
(*  - The strings of the user interface are written without accents.       *)
(***************************************************************************)
EXTENDS Integers, Sequences, FiniteSets, TLC

VARIABLES
    trainer_stats,          \* st.session_state.trainer_stats (the ledger)
    current_spot,           \* st.session_state.current_spot
    last_feedback,          \* st.session_state.last_feedback
    answered_current_spot,  \* st.session_state.answered_current_spot
    trainer_mode,           \* the "trainer_mode" radio widget
    supabase_stats,         \* the user's row of the Supabase table trainer_stats
    file_stats,             \* the user's trainer_stats_<user>.json file
    op,                     \* the last operation that changed the session
    save_result,            \* outcome of the last save_trainer_stats call
    draws,                  \* number of successful "Nouvelle main" draws so far
    write_faults,           \* whether a write to a store can fail in this run
    other_session,          \* the session state of a second browser session
    last_writer,            \* whose save_trainer_stats ran last: "none", "this"
                            \* (the session the variables above hold) or "other"
    args,                   \* arguments of the last call of a function under test
    ret,                    \* its result
    editor,                 \* st.session_state of run_range_editor: the range
                            \* set being edited and the action the clicks apply
    users                   \* st.session_state.trainer_user, the user the
                            \* session and the two stores above belong to, and
                            \* the stored ledgers of the user who is logged out

vars == <<trainer_stats, current_spot, last_feedback, answered_current_spot,
          trainer_mode, supabase_stats, file_stats, op, save_result, draws,
          write_faults, other_session, last_writer, args, ret, editor,
          users>>

session_vars == <<trainer_stats, current_spot, last_feedback,
                  answered_current_spot, trainer_mode, supabase_stats,
                  file_stats, save_result, draws, write_faults, other_session,
                  last_writer, editor, users>>

\* what no handler of a session changes
env_vars == <<write_faults, other_session, editor, users>>

\* what changes only in save_trainer_stats
save_vars == <<save_result, last_writer>>

---------------------------------------------------------------------------
(* Python values *)

None == <<>>

Some(x) == <<x>>

Get(o) == o[1]

\* an exception that escapes the call, in place of its result
Raise(exception) == <<"raise", exception>>

is_raise(result) == Len(result) = 2 /\ result[1] = "raise"

\* a JSON value that is not an object (a string, a number, a list): the
\* model keeps only its type
NOT_A_DICT == [json |-> "str"]

\* isinstance(value, dict)
isinstance_dict(value) == "json" \notin DOMAIN value

\* dict.get(k, default)
DictGet(d, k, default) == IF k \in DOMAIN d THEN d[k] ELSE default

\* the elements of a list
Elems(list) == {list[n] : n \in 1..Len(list)}

\* str.upper() on the characters the model's strings are made of
UpperChar(c) ==
    CASE c = "a" -> "A" [] c = "k" -> "K" [] c = "q" -> "Q" [] c = "j" -> "J"
      [] c = "t" -> "T" [] c = "s" -> "S" [] c = "o" -> "O" [] c = "x" -> "X"
      [] OTHER -> c

upper(h) == [n \in 1..Len(h) |-> UpperChar(h[n])]

---------------------------------------------------------------------------
(* Constants of trainer_module.py *)

RANKS == <<"A", "K", "Q", "J", "T", "9", "8", "7", "6", "5", "4", "3", "2">>

POSITIONS_6MAX == <<"LJ", "HJ", "CO", "BTN", "SB", "BB">>

POSITIONS_8MAX == <<"UTG", "UTG+1", "LJ", "HJ", "CO", "BTN", "SB", "BB">>

STACKS == <<100, 50, 25, 20, 19, 18, 17, 16, 15, 14, 13, 12, 11, 10>>

\* ACTIONS of the source (ACTIONS is a reserved word of TLA+)
ACTION_KEYS == <<"fold", "open", "call", "threebet", "open_shove", "threebet_shove">>

MODES == <<"Entrainement libre", "Avec ranges de correction", "Focus leak">>

---------------------------------------------------------------------------
(* HandGrid *)

\* list.index(x): the first position of x, 0-based
Index(list, x) == (CHOOSE n \in 1..Len(list) :
                      list[n] = x /\ \A m \in 1..(n - 1) : list[m] # x) - 1

\* the label of a cell with its ranks in the order of the cell, row first
canonical_hand_row_first(i, j) ==
    IF i = j THEN <<RANKS[i + 1], RANKS[j + 1]>>
    ELSE IF i < j THEN <<RANKS[i + 1], RANKS[j + 1], "s">>
    ELSE <<RANKS[i + 1], RANKS[j + 1], "o">>

\* coordinates are 0-based as in the source
canonical_hand_from_indices(i, j) ==
    LET r1 == RANKS[i + 1]
        r2 == RANKS[j + 1]
        idx1 == Index(RANKS, r1)
        idx2 == Index(RANKS, r2)
        hi == IF idx1 < idx2 THEN r1 ELSE r2
        lo == IF idx1 < idx2 THEN r2 ELSE r1
    IN  IF i = j THEN <<r1, r2>>
        ELSE IF i < j THEN <<hi, lo, "s">>
        ELSE <<hi, lo, "o">>

COORDS == (0..(Len(RANKS) - 1)) \X (0..(Len(RANKS) - 1))

ALL_HANDS == {canonical_hand_from_indices(c[1], c[2]) : c \in COORDS}

\* the dict built by the loop over i, j: a later coordinate with the same
\* label overwrites an earlier one, so the last one in row-major order stays
HAND_TO_COORD ==
    [h \in ALL_HANDS |->
        LET at == {c \in COORDS : canonical_hand_from_indices(c[1], c[2]) = h}
        IN  CHOOSE c \in at :
                \A d \in at : d[1] < c[1] \/ (d[1] = c[1] /\ d[2] <= c[2])]

\* the label of a grid cell, by rank characters
Hand(a, b, suffix) == IF suffix = "" THEN <<a, b>> ELSE <<a, b, suffix>>

---------------------------------------------------------------------------
(* RangeEvaluator *)

\* evaluate_answer with "fold" judged like every other action: correct when
\* the fold list holds the hand
evaluate_answer_fold_listed(hero_action, hero_hand, actions_for_spot) ==
    IF actions_for_spot = None THEN TRUE
    ELSE upper(hero_hand) \in
            {upper(h) : h \in Elems(DictGet(Get(actions_for_spot), hero_action,
                                            <<>>))}

\* trainer_module.evaluate_answer; actions_for_spot is None or Some(dict)
evaluate_answer(hero_action, hero_hand, actions_for_spot) ==
    IF actions_for_spot = None THEN TRUE
    ELSE
        LET actions == Get(actions_for_spot)
            non_fold_actions == {a \in DOMAIN actions : a # "fold"}
            non_fold_hands ==
                {upper(h) : h \in UNION {Elems(DictGet(actions, a, <<>>)) :
                                            a \in non_fold_actions}}
            hero_hand_u == upper(hero_hand)
            allowed_hands ==
                {upper(h) : h \in Elems(DictGet(actions, hero_action, <<>>))}
        IN  IF hero_action = "fold"
            THEN hero_hand_u \notin non_fold_hands
            ELSE hero_hand_u \in allowed_hands

\* appV3.get_correct_actions_for_hand; spot_def is a dict with key "actions"
get_correct_actions_for_hand(spot_def, hand_code) ==
    LET actions == DictGet(spot_def, "actions", <<>>)
        non_fold ==
            {act \in {"open", "call", "threebet", "open_shove", "threebet_shove"} :
                \E h \in Elems(DictGet(actions, act, <<>>)) : h = hand_code}
    IN  IF non_fold = {} THEN {"fold"}
        ELSE IF hand_code \in Elems(DictGet(actions, "fold", <<>>))
             THEN non_fold \cup {"fold"}
             ELSE non_fold

---------------------------------------------------------------------------
(* PerformanceLedger *)

\* d with d[k] = v
Put(d, k, v) == (k :> v) @@ d

\* update_stats that counts the answer for the spot and not in the totals
update_stats_spot_only(stats, spot_key, success) ==
    LET spots == DictGet(stats, "spots", <<>>)
        s == DictGet(spots, spot_key, [success |-> 0, fail |-> 0])
        s1 == IF success THEN [s EXCEPT !.success = @ + 1]
                         ELSE [s EXCEPT !.fail = @ + 1]
        history == DictGet(stats, "history", <<>>)
    IN  [spots |-> Put(spots, spot_key, s1),
         total |-> stats.total,
         history |-> Append(history, [spot_key |-> spot_key, success |-> success])]

\* update_stats with the new event put at the head of the history
update_stats_prepending(stats, spot_key, success) ==
    LET spots == DictGet(stats, "spots", <<>>)
        s == DictGet(spots, spot_key, [success |-> 0, fail |-> 0])
        s1 == IF success THEN [s EXCEPT !.success = @ + 1]
                         ELSE [s EXCEPT !.fail = @ + 1]
        total1 == IF success THEN [stats.total EXCEPT !.success = @ + 1]
                             ELSE [stats.total EXCEPT !.fail = @ + 1]
        history == DictGet(stats, "history", <<>>)
    IN  [spots |-> Put(spots, spot_key, s1),
         total |-> total1,
         history |-> <<[spot_key |-> spot_key, success |-> success]>> \o history]

\* update_stats mutates stats in place; the model returns the mutated dict.
\* The "ts" of an event (datetime.utcnow()) is left out: nothing reads it
\* but the progress chart.
update_stats(stats, spot_key, success) ==
    LET spots == DictGet(stats, "spots", <<>>)
        s == DictGet(spots, spot_key, [success |-> 0, fail |-> 0])
        s1 == IF success THEN [s EXCEPT !.success = @ + 1]
                         ELSE [s EXCEPT !.fail = @ + 1]
        total1 == IF success THEN [stats.total EXCEPT !.success = @ + 1]
                             ELSE [stats.total EXCEPT !.fail = @ + 1]
        history == DictGet(stats, "history", <<>>)
    IN  [spots |-> Put(spots, spot_key, s1),
         total |-> total1,
         history |-> Append(history, [spot_key |-> spot_key, success |-> success])]

\* get_spot_weight floored at 0 instead of 0.2
get_spot_weight_floor_zero(stats, spot_key) ==
    LET s == DictGet(DictGet(stats, "spots", <<>>), spot_key,
                     [success |-> 0, fail |-> 0])
        w == 10 + 10 * s.fail - 3 * s.success
    IN  IF w > 0 THEN w ELSE 0

\* get_spot_weight without the floor of 0.2
get_spot_weight_unfloored(stats, spot_key) ==
    LET s == DictGet(DictGet(stats, "spots", <<>>), spot_key,
                     [success |-> 0, fail |-> 0])
    IN  10 + 10 * s.fail - 3 * s.success

\* get_spot_weight, in tenths: 1.0 + fail - 0.3 * success, floored at 0.2
get_spot_weight(stats, spot_key) ==
    LET s == DictGet(DictGet(stats, "spots", <<>>), spot_key,
                     [success |-> 0, fail |-> 0])
        fail == s.fail
        success == s.success
        w == 10 + 10 * fail - 3 * success
    IN  IF w > 2 THEN w ELSE 2

---------------------------------------------------------------------------
(* SpotScheduler *)

\* str(s) for s in STACKS: the labels of the stack selectbox
STACK_LABELS == <<"100", "50", "25", "20", "19", "18", "17", "16", "15", "14",
                  "13", "12", "11", "10">>

\* int(text): Some(n), or None for the ValueError. "050" stands for the
\* texts that int() accepts and str() never produces.
py_int(text) ==
    IF \E n \in 1..Len(STACKS) : STACK_LABELS[n] = text
    THEN Some(STACKS[CHOOSE n \in 1..Len(STACKS) : STACK_LABELS[n] = text])
    ELSE IF text = "050" THEN Some(50)
    ELSE None

\* key.split("_", 3) and int(stack_str): Some([ttype, pos, stack, scen]),
\* or None when the unpacking or int() raises. scen keeps its own segments.
parse_key(key) ==
    IF Len(key) < 4 \/ py_int(key[3]) = None THEN None
    ELSE Some([ttype |-> key[1], pos |-> key[2], stack |-> Get(py_int(key[3])),
               scen |-> SubSeq(key, 4, Len(key))])

\* the stack_choice of pick_spot_for_training (None: no stack filter)
stack_choice_of(stack_choice_label) ==
    IF stack_choice_label \in {"", "Aleatoire"} THEN None
    ELSE py_int(stack_choice_label)

\* the filtering loop without its last test, on the scenario "open" of BB
passes_filters_keeping_bb_open(key, pos_choice, stack_choice_label, table_type_filter) ==
    LET parsed == parse_key(key)
        k == Get(parsed)
        stack_choice == stack_choice_of(stack_choice_label)
    IN  /\ parsed # None
        /\ ~(table_type_filter # "" /\ k.ttype # table_type_filter)
        /\ ~(pos_choice \notin {"", "Aleatoire"} /\ k.pos # pos_choice)
        /\ ~(stack_choice # None /\ k.stack # Get(stack_choice))

\* the body of the filtering loop: TRUE when key is appended to filtered
passes_filters(key, pos_choice, stack_choice_label, table_type_filter) ==
    LET parsed == parse_key(key)
        k == Get(parsed)
        stack_choice == stack_choice_of(stack_choice_label)
    IN  /\ parsed # None
        /\ ~(table_type_filter # "" /\ k.ttype # table_type_filter)
        /\ ~(pos_choice \notin {"", "Aleatoire"} /\ k.pos # pos_choice)
        /\ ~(stack_choice # None /\ k.stack # Get(stack_choice))
        /\ ~(k.scen = <<"open">> /\ k.pos = "BB")

\* the filtering loop without the fallback to the whole pool
pick_pool_no_fallback(available_spot_keys, pos_choice, stack_choice_label, table_type_filter) ==
    SelectSeq(available_spot_keys,
        LAMBDA key : passes_filters(key, pos_choice, stack_choice_label,
                                    table_type_filter))

\* the whole pool, whatever the filters
pick_pool_unfiltered(available_spot_keys, pos_choice, stack_choice_label, table_type_filter) ==
    available_spot_keys

\* filtered, after "if not filtered: filtered = list(available_spot_keys)"
pick_pool(available_spot_keys, pos_choice, stack_choice_label, table_type_filter) ==
    LET filtered == SelectSeq(available_spot_keys,
                        LAMBDA key : passes_filters(key, pos_choice,
                                        stack_choice_label, table_type_filter))
    IN  IF filtered = <<>> THEN available_spot_keys ELSE filtered

RECURSIVE SumWeights(_, _, _)
\* the sum of the weights of the first n keys of pool
SumWeights(pool, stats, n) ==
    IF n = 0 THEN 0
    ELSE SumWeights(pool, stats, n - 1) + get_spot_weight(stats, pool[n])

\* a wheel that ignores the weights: every key of the pool is as likely
roulette_unweighted(pool, stats, r) == pool[(r % Len(pool)) + 1]

\* the roulette wheel: r is the value random.uniform(0, total_w) returned, in
\* tenths (or, when total_w <= 0, the index random.choice drew)
roulette(pool, stats, r) ==
    LET total_w == SumWeights(pool, stats, Len(pool))
        hits == {n \in 1..Len(pool) : r <= SumWeights(pool, stats, n)}
    IN  IF total_w <= 0 THEN pool[(r % Len(pool)) + 1]
        ELSE IF hits = {} THEN pool[Len(pool)]
        ELSE pool[CHOOSE n \in hits : \A m \in hits : n <= m]

\* the values random.uniform(0, total_w) can return, on the grid of tenths
uniform_draws(pool, stats) == 0..SumWeights(pool, stats, Len(pool))

\* pick_spot_for_training with the random draw r made explicit
pick_spot_for_training(available_spot_keys, pos_choice, stack_choice_label, stats, table_type_filter, r) ==
    LET filtered == pick_pool(available_spot_keys, pos_choice,
                              stack_choice_label, table_type_filter)
    IN  IF filtered = <<>> THEN None
        ELSE Some(roulette(filtered, stats, r))

---------------------------------------------------------------------------
(* Hands dealt near the playing range *)

\* non_fold_hands of get_candidate_hands_for_spot
non_fold_hands_of(actions_for_spot) ==
    {h \in UNION {Elems(actions_for_spot[act]) :
                     act \in {a \in DOMAIN actions_for_spot : a # "fold"}} :
        h \in ALL_HANDS}

Abs(n) == IF n < 0 THEN -n ELSE n

Max2(a, b) == IF a > b THEN a ELSE b

\* get_candidate_hands_for_spot measuring the distance along rows and columns
\* (sum of the two differences) instead of taking their maximum
get_candidate_hands_manhattan(actions_for_spot, max_distance) ==
    LET non_fold_hands == non_fold_hands_of(actions_for_spot)
    IN  IF non_fold_hands = {} THEN ALL_HANDS
        ELSE {h \in ALL_HANDS :
                 \/ h \in non_fold_hands
                 \/ \E played \in non_fold_hands :
                       Abs(HAND_TO_COORD[h][1] - HAND_TO_COORD[played][1])
                         + Abs(HAND_TO_COORD[h][2] - HAND_TO_COORD[played][2])
                           <= max_distance}

\* get_candidate_hands_for_spot(actions_for_spot, max_distance)
get_candidate_hands_for_spot(actions_for_spot, max_distance) ==
    LET non_fold_hands == non_fold_hands_of(actions_for_spot)
    IN  IF non_fold_hands = {} THEN ALL_HANDS
        ELSE {h \in ALL_HANDS :
                 \/ h \in non_fold_hands
                 \/ \E played \in non_fold_hands :
                       Max2(Abs(HAND_TO_COORD[h][1] - HAND_TO_COORD[played][1]),
                            Abs(HAND_TO_COORD[h][2] - HAND_TO_COORD[played][2]))
                           <= max_distance}

\* the outcomes of random.choice(list(xs)) that are explored: those of deck,
\* and every one of xs when deck holds none of them
random_choice(xs, deck) ==
    IF \E x \in deck : x \in xs THEN {x \in deck : x \in xs} ELSE xs

\* draw_hand_for_spot: the hands it can return (max_distance defaults to 2)
draw_hand_for_spot(actions_for_spot, deck) ==
    LET candidates == get_candidate_hands_for_spot(actions_for_spot, 2)
    IN  IF candidates = {} THEN random_choice(ALL_HANDS, deck)
        ELSE random_choice(candidates, deck)

---------------------------------------------------------------------------
(* new_spot_and_hand *)

\* A range file is [spots |-> d] where the dict d of spots is
\* [order |-> the keys in file order, at |-> key -> spot].
NoSpots == [order |-> <<>>, at |-> <<>>]

\* the spots a draw uses: user_ranges / default_ranges by ranges_source
active_spots(ranges_source, default_ranges, user_ranges) ==
    IF ranges_source = "Ranges personnelles"
    THEN IF DictGet(user_ranges, "spots", NoSpots).order # <<>>
         THEN DictGet(user_ranges, "spots", NoSpots)
         ELSE DictGet(default_ranges, "spots", NoSpots)
    ELSE DictGet(default_ranges, "spots", NoSpots)

\* the body of the Focus leak loop: TRUE when key is appended to
\* filtered_keys. acc >= focus_threshold is compared without the division:
\* success / total * 100.0 >= t  iff  100 * success >= t * total.
is_leak_candidate(key, table_type, pos_choice, stack_choice_label, stats, focus_threshold, focus_scenario) ==
    LET parsed == parse_key(key)
        k == Get(parsed)
        stack_target == IF stack_choice_label \in {"", "Aleatoire"} THEN None
                        ELSE py_int(stack_choice_label)
        s == DictGet(DictGet(stats, "spots", <<>>), key,
                     [success |-> 0, fail |-> 0])
        total == s.success + s.fail
    IN  /\ parsed # None
        /\ ~(table_type # "" /\ k.ttype # table_type)
        /\ ~(pos_choice \notin {"", "Aleatoire"} /\ k.pos # pos_choice)
        /\ ~(stack_target # None /\ k.stack # Get(stack_target))
        /\ ~(focus_scenario # <<"Tous">> /\ k.scen # focus_scenario)
        /\ ~(total >= 5 /\ 100 * s.success >= focus_threshold * total)

\* the keys of the spots with no Focus leak filtering
keys_for_mode_unfiltered(mode, spots, table_type, pos_choice, stack_choice_label, stats, focus_threshold, focus_scenario) ==
    spots.order

\* available_spot_keys as handed to pick_spot_for_training
keys_for_mode(mode, spots, table_type, pos_choice, stack_choice_label, stats, focus_threshold, focus_scenario) ==
    IF mode = "Focus leak"
    THEN SelectSeq(spots.order,
             LAMBDA key : is_leak_candidate(key, table_type, pos_choice,
                              stack_choice_label, stats, focus_threshold,
                              focus_scenario))
    ELSE spots.order

\* the dict new_spot_and_hand returns for a spot of the ranges (the fields
\* position, stack and table_type, which are only displayed, are left out)
range_spot(spots, spot_key, hand) ==
    [scenario |-> DictGet(spots.at[spot_key], "scenario", "open"),
     hand |-> hand,
     spot_key |-> Some(spot_key),
     actions_for_spot |-> Some(DictGet(spots.at[spot_key], "actions", <<>>))]

\* the dict new_spot_and_hand returns in free training
free_spot(hand) ==
    [scenario |-> "libre", hand |-> hand, spot_key |-> None,
     actions_for_spot |-> None]

\* new_spot_and_hand: the set of the values it can return, None or Some(spot).
\* focus_threshold and focus_scenario are read from st.session_state; deck
\* bounds the hands the random source deals.
new_spot_and_hand(mode, table_type, pos_choice, stack_choice_label, ranges_source, default_ranges, user_ranges, stats, focus_threshold, focus_scenario, deck) ==
    IF mode = "Entrainement libre"
    THEN {Some(free_spot(h)) : h \in random_choice(ALL_HANDS, deck)}
    ELSE
        LET spots == active_spots(ranges_source, default_ranges, user_ranges)
            available_spot_keys ==
                keys_for_mode(mode, spots, table_type, pos_choice,
                    stack_choice_label, stats, focus_threshold, focus_scenario)
            pool == pick_pool(available_spot_keys, pos_choice,
                              stack_choice_label, table_type)
            picks == {pick_spot_for_training(available_spot_keys, pos_choice,
                          stack_choice_label, stats, table_type, r) :
                         r \in uniform_draws(pool, stats)}
        IN  IF spots.order = <<>> THEN {None}
            ELSE IF available_spot_keys = <<>> THEN {None}
            ELSE UNION {IF p = None THEN {None}
                        ELSE IF ~isinstance_dict(spots.at[Get(p)])
                        THEN {Raise("AttributeError")}
                        ELSE {Some(range_spot(spots, Get(p), h)) :
                                 h \in draw_hand_for_spot(
                                     DictGet(spots.at[Get(p)], "actions", <<>>),
                                     deck)} :
                        p \in picks}

---------------------------------------------------------------------------
(* The session of run_trainer before its first operation *)

\* default_stats_dict()
default_stats_dict ==
    [spots |-> <<>>, total |-> [success |-> 0, fail |-> 0], history |-> <<>>]

\* the session of run_range_editor while the trainer page is shown: no range
\* loaded, the action radio on its first option, no spot selected, no click
EDITOR_IDLE ==
    [spots |-> [order |-> <<>>, at |-> <<>>], current_action |-> "open",
     selection |-> None, runs |-> 0]

\* the two users of the application
USERS == <<"user_a", "user_b">>

\* the first user is logged in; no ledger is stored for the other one
FIRST_LOGIN ==
    [trainer_user |-> USERS[1],
     away |-> [supabase_stats |-> None, file_stats |-> None]]

SessionInit ==
    /\ editor = EDITOR_IDLE
    /\ users = FIRST_LOGIN
    /\ trainer_stats = default_stats_dict
    /\ current_spot = None
    /\ last_feedback = None
    /\ answered_current_spot = FALSE
    /\ trainer_mode = MODES[2]
    /\ supabase_stats = None
    /\ file_stats = None
    /\ save_result = "none"
    /\ other_session = None
    /\ last_writer = "none"
    /\ draws = 0

---------------------------------------------------------------------------
(* Range files the draws are made from *)

AA == Hand("A", "A", "")

AKs == Hand("A", "K", "s")

AKo == Hand("A", "K", "o")

K_BTN == <<"6-max", "BTN", "100", "open">>

K_BB == <<"6-max", "BB", "100", "vs", "open", "BTN">>

K_CO8 == <<"8-max", "CO", "50", "open">>

\* an "open" spot of the big blind: the scenario the scheduler calls impossible
K_BBOPEN == <<"6-max", "BB", "50", "open">>

\* a key whose stack is not a number: int(stack_str) raises
K_NOSTACK == <<"6-max", "BTN", "deep", "open">>

\* a key with fewer than four parts: the unpacking of split("_", 3) raises
K_SHORT == <<"notes">>

EMPTY_RANGES == [version |-> 2, spots |-> NoSpots]

DEFAULT_RANGES ==
    [version |-> 2,
     spots |->
        [order |-> <<K_BTN, K_BB>>,
         at |-> (K_BTN :> [table_type |-> "6-max", position |-> "BTN",
                           stack |-> 100, scenario |-> "open",
                           actions |-> [open |-> <<AA, AKs>>]])
             @@ (K_BB :> [table_type |-> "6-max", position |-> "BB",
                          stack |-> 100, scenario |-> "vs_open_BTN",
                          actions |-> [fold |-> <<AKo>>, call |-> <<AKs>>,
                                       threebet |-> <<AA, AKs>>]])]]

USER_RANGES ==
    [version |-> 2,
     spots |->
        [order |-> <<K_CO8>>,
         at |-> (K_CO8 :> [table_type |-> "8-max", position |-> "CO",
                           stack |-> 50, scenario |-> "open",
                           actions |-> [open_shove |-> <<AA>>]])]]

\* the hands the random source deals in the explored runs: the first
\* MaxDeal cells of the top row of the grid (AA, AKs, AQs, ...)
MaxDeal == 2

DealWindow ==
    {canonical_hand_from_indices(0, j) :
        j \in {n \in 0..(Len(RANKS) - 1) : n < MaxDeal}}

---------------------------------------------------------------------------
(* The operations of run_trainer *)

\* how many successful draws a run explores when the stores are reliable
MaxDraws == 2

\* how many successful draws a run explores when writes can fail
MaxFaultyDraws == 2

\* the outcomes of one write to a store (TRUE: written)
write_outcomes == IF write_faults THEN BOOLEAN ELSE {TRUE}

\* save_trainer_stats that keeps a stored ledger holding more answers than
\* the one being saved
save_trainer_stats_keeping_longer(stats, supabase_ok, file_ok) ==
    /\ supabase_stats' =
          IF supabase_stats # None
             /\ Len(Get(supabase_stats).history) > Len(stats.history)
          THEN supabase_stats ELSE Some(stats)
    /\ file_stats' =
          IF file_stats # None /\ Len(Get(file_stats).history) > Len(stats.history)
          THEN file_stats ELSE Some(stats)
    /\ save_result' = "ok"
    /\ last_writer' = "this"

\* save_trainer_stats: the Supabase upsert, then the file; either write can
\* fail (its exception is swallowed) and then leaves the stored ledger as is
save_trainer_stats(stats, supabase_ok, file_ok) ==
    /\ supabase_stats' = IF supabase_ok THEN Some(stats) ELSE supabase_stats
    /\ file_stats' = IF file_ok THEN Some(stats) ELSE file_stats
    /\ save_result' = IF supabase_ok /\ file_ok THEN "ok" ELSE "failed"
    /\ last_writer' = "this"

\* load_trainer_stats: the Supabase row when the SELECT succeeds (no row:
\* a default ledger), else the file (no file: a default ledger)
load_trainer_stats(supabase_ok) ==
    IF supabase_ok
    THEN IF supabase_stats = None THEN default_stats_dict
         ELSE Get(supabase_stats)
    ELSE IF file_stats = None THEN default_stats_dict ELSE Get(file_stats)

\* the reset button clearing the history and the spots but not the totals
reset_stats_keeps_total ==
    /\ \E supabase_ok \in write_outcomes, file_ok \in write_outcomes :
          save_trainer_stats([default_stats_dict EXCEPT
                                 !.total = trainer_stats.total],
                             supabase_ok, file_ok)
    /\ trainer_stats' = [default_stats_dict EXCEPT !.total = trainer_stats.total]
    /\ current_spot' = None
    /\ last_feedback' = None
    /\ answered_current_spot' = FALSE
    /\ op' = "reset"
    /\ UNCHANGED <<trainer_mode, draws, env_vars, args, ret>>

\* the "Remettre toutes mes stats a zero" button, with reset_trainer_stats
reset_stats ==
    /\ \E supabase_ok \in write_outcomes, file_ok \in write_outcomes :
          save_trainer_stats(default_stats_dict, supabase_ok, file_ok)
    /\ trainer_stats' = default_stats_dict
    /\ current_spot' = None
    /\ last_feedback' = None
    /\ answered_current_spot' = FALSE
    /\ op' = "reset"
    /\ UNCHANGED <<trainer_mode, draws, env_vars, args, ret>>

\* the end of the "Nouvelle main" button where a request without spot
\* takes the spot, the feedback and the answered flag away
nouvelle_main_ending_clearing(new_spot) ==
    IF new_spot = None \/ is_raise(new_spot)
    THEN /\ current_spot' = None
         /\ last_feedback' = None
         /\ answered_current_spot' = FALSE
         /\ UNCHANGED <<op, trainer_stats, trainer_mode, supabase_stats,
                        file_stats, save_vars, draws, env_vars>>
    ELSE /\ current_spot' = new_spot
         /\ last_feedback' = None
         /\ answered_current_spot' = FALSE
         /\ draws' = draws + 1
         /\ op' = "new_spot"
         /\ UNCHANGED <<trainer_stats, trainer_mode, supabase_stats,
                        file_stats, save_vars, env_vars>>

\* the end of the "Nouvelle main" button, on the value new_spot_and_hand
\* returned: a warning and nothing else for None (an exception ends the
\* run), the new spot stored otherwise
nouvelle_main_ending(new_spot) ==
    IF new_spot = None \/ is_raise(new_spot)
    THEN UNCHANGED <<session_vars, op>>
    ELSE /\ current_spot' = new_spot
         /\ last_feedback' = None
         /\ answered_current_spot' = FALSE
         /\ draws' = draws + 1
         /\ op' = "new_spot"
         /\ UNCHANGED <<trainer_stats, trainer_mode, supabase_stats,
                        file_stats, save_vars, env_vars>>

\* the "Nouvelle main" button. The widgets other than the mode, and the
\* range files (read again on every run), are inputs of the step.
nouvelle_main ==
    /\ draws < (IF write_faults THEN MaxFaultyDraws ELSE MaxDraws)
    /\ \E table_type \in {"6-max", "8-max"},
          pos_choice \in {"Aleatoire"},
          ranges_source \in {"Ranges par defaut", "Ranges personnelles"},
          default_ranges \in {EMPTY_RANGES, DEFAULT_RANGES},
          user_ranges \in {EMPTY_RANGES, USER_RANGES} :
          \E new_spot \in new_spot_and_hand(trainer_mode, table_type, pos_choice,
                             "Aleatoire", ranges_source, default_ranges,
                             user_ranges, trainer_stats, 80, <<"Tous">>,
                             DealWindow) :
              nouvelle_main_ending(new_spot)
    /\ UNCHANGED <<args, ret>>

\* the body of on_answer after its two early returns
on_answer_body(action_key) ==
    LET spot == Get(current_spot)
        hero_hand == spot.hand
        actions_for_spot == spot.actions_for_spot
        correct == evaluate_answer(action_key, hero_hand, actions_for_spot)
        scored == trainer_mode # "Entrainement libre" /\ spot.spot_key # None
    IN  /\ IF scored
           THEN /\ trainer_stats' =
                      update_stats(trainer_stats, Get(spot.spot_key), correct)
                /\ \E supabase_ok \in write_outcomes,
                      file_ok \in write_outcomes :
                      save_trainer_stats(
                          update_stats(trainer_stats, Get(spot.spot_key),
                                       correct),
                          supabase_ok, file_ok)
           ELSE UNCHANGED <<trainer_stats, supabase_stats, file_stats,
                            save_vars>>
        /\ last_feedback' =
              IF trainer_mode = "Entrainement libre"
              THEN Some([correct |-> None, hero_action |-> action_key])
              ELSE Some([correct |-> Some(correct), hero_action |-> action_key])
        /\ answered_current_spot' = TRUE
        /\ op' = IF scored THEN "answer_scored" ELSE "answer_unscored"
        /\ UNCHANGED <<current_spot, trainer_mode, draws, env_vars,
                       args, ret>>

\* on_answer without the return on answered_current_spot
on_answer_rescoring(action_key) ==
    IF current_spot = None THEN UNCHANGED vars
    ELSE on_answer_body(action_key)

\* on_answer that updates the ledger in memory and never saves it
on_answer_unsaved(action_key) ==
    IF current_spot = None \/ answered_current_spot
    THEN UNCHANGED vars
    ELSE
        LET spot == Get(current_spot)
            correct == evaluate_answer(action_key, spot.hand,
                                       spot.actions_for_spot)
            scored == trainer_mode # "Entrainement libre" /\ spot.spot_key # None
        IN  /\ trainer_stats' =
                  IF scored
                  THEN update_stats(trainer_stats, Get(spot.spot_key), correct)
                  ELSE trainer_stats
            /\ last_feedback' =
                  IF trainer_mode = "Entrainement libre"
                  THEN Some([correct |-> None, hero_action |-> action_key])
                  ELSE Some([correct |-> Some(correct), hero_action |-> action_key])
            /\ answered_current_spot' = TRUE
            /\ op' = IF scored THEN "answer_scored" ELSE "answer_unscored"
            /\ UNCHANGED <<current_spot, trainer_mode, draws, env_vars,
                           args, ret, supabase_stats, file_stats, save_vars>>

\* on_answer in which a failed write ends the handler: the ledger is already
\* updated in memory, the feedback and the answered flag are not set
on_answer_aborting(action_key) ==
    IF current_spot = None \/ answered_current_spot
    THEN UNCHANGED vars
    ELSE IF trainer_mode = "Entrainement libre"
            \/ Get(current_spot).spot_key = None
    THEN on_answer_body(action_key)
    ELSE
        LET spot == Get(current_spot)
            correct == evaluate_answer(action_key, spot.hand,
                                       spot.actions_for_spot)
            stats1 == update_stats(trainer_stats, Get(spot.spot_key), correct)
        IN  /\ trainer_stats' = stats1
            /\ \E supabase_ok \in write_outcomes, file_ok \in write_outcomes :
                  /\ save_trainer_stats(stats1, supabase_ok, file_ok)
                  /\ IF supabase_ok /\ file_ok
                     THEN /\ last_feedback' =
                               Some([correct |-> Some(correct),
                                     hero_action |-> action_key])
                          /\ answered_current_spot' = TRUE
                     ELSE UNCHANGED <<last_feedback, answered_current_spot>>
            /\ op' = "answer_scored"
            /\ UNCHANGED <<current_spot, trainer_mode, draws, env_vars,
                           args, ret>>

\* on_answer(action_key), called by an answer button
on_answer(action_key) ==
    IF current_spot = None \/ answered_current_spot
    THEN UNCHANGED vars
    ELSE on_answer_body(action_key)

\* the user picks another training mode: the script runs with no button set
select_mode(mode) ==
    /\ mode # trainer_mode
    /\ trainer_mode' = mode
    /\ UNCHANGED <<op, trainer_stats, current_spot, last_feedback,
                   answered_current_spot, supabase_stats, file_stats,
                   save_vars, draws, env_vars, args, ret>>

Init ==
    /\ SessionInit
    /\ write_faults = FALSE
    /\ op = "init"
    /\ args = None
    /\ ret = None

\* the same session in a run whose writes can fail
InitFaulty ==
    /\ SessionInit
    /\ write_faults = TRUE
    /\ op = "init"
    /\ args = None
    /\ ret = None

Next ==
    \/ nouvelle_main
    \/ \E action_key \in Elems(ACTION_KEYS) : on_answer(action_key)
    \/ reset_stats
    \/ \E mode \in Elems(MODES) : select_mode(mode)

Spec == Init /\ [][Next]_vars

\* the runs with failing writes: the mode widget is left as it is and the
\* answers are fold and open
NextFaulty ==
    \/ nouvelle_main
    \/ \E action_key \in {"fold", "open"} : on_answer(action_key)
    \/ reset_stats

SpecFaulty == InitFaulty /\ [][NextFaulty]_vars

\* C12: a failed persistence write does not abort the drill. Every step that
\* records an answer, whatever the outcome of its writes, leaves the new
\* result in the in-memory ledger, stores the feedback and sets the answered
\* flag; this holds for the answers given after a failed write as well.
C12_FailedSaveKeepsDrill ==
    [][(op' = "answer_scored" /\ trainer_stats' # trainer_stats) =>
          /\ answered_current_spot'
          /\ last_feedback' # None
          /\ Get(last_feedback').correct # None
          /\ current_spot' = current_spot
          /\ trainer_stats' =
                update_stats(trainer_stats, Get(Get(current_spot).spot_key),
                             Get(Get(last_feedback').correct))]_vars

\* C12: no write ever succeeded, and the second answer of the run has been
\* recorded in memory with its feedback
C12_SecondAnswerAfterFailure ==
    /\ write_faults
    /\ save_result = "failed"
    /\ supabase_stats = None
    /\ file_stats = None
    /\ op = "answer_scored"
    /\ answered_current_spot
    /\ last_feedback # None
    /\ Len(trainer_stats.history) = 2

---------------------------------------------------------------------------
(* Two sessions of the same user *)

\* the part of st.session_state that belongs to one browser session
session_state ==
    [trainer_stats |-> trainer_stats,
     current_spot |-> current_spot,
     last_feedback |-> last_feedback,
     answered_current_spot |-> answered_current_spot,
     trainer_mode |-> trainer_mode]

\* the first script run of a second session of the user: the session state
\* is initialised and the ledger is loaded from the stores
open_second_session ==
    /\ other_session = None
    /\ \E supabase_ok \in write_outcomes :
          other_session' =
              Some([trainer_stats |-> load_trainer_stats(supabase_ok),
                    current_spot |-> None,
                    last_feedback |-> None,
                    answered_current_spot |-> FALSE,
                    trainer_mode |-> MODES[2]])
    /\ UNCHANGED <<trainer_stats, current_spot, last_feedback,
                   answered_current_spot, trainer_mode, supabase_stats,
                   file_stats, op, save_vars, draws, write_faults, args, ret,
                   editor, users>>

\* the next script run is one of the other session: the session variables
\* now hold its state
switch_session ==
    /\ other_session # None
    /\ trainer_stats' = Get(other_session).trainer_stats
    /\ current_spot' = Get(other_session).current_spot
    /\ last_feedback' = Get(other_session).last_feedback
    /\ answered_current_spot' = Get(other_session).answered_current_spot
    /\ trainer_mode' = Get(other_session).trainer_mode
    /\ other_session' = Some(session_state)
    /\ last_writer' = CASE last_writer = "this" -> "other"
                         [] last_writer = "other" -> "this"
                         [] OTHER -> "none"
    /\ UNCHANGED <<supabase_stats, file_stats, op, save_result, draws,
                   write_faults, args, ret, editor, users>>

\* the runs of two sessions: the mode widget is left as it is and the
\* answers are fold and open
NextTwo ==
    \/ nouvelle_main
    \/ \E action_key \in {"fold", "open"} : on_answer(action_key)
    \/ reset_stats
    \/ open_second_session
    \/ switch_session

SpecTwo == Init /\ [][NextTwo]_vars

\* the in-memory ledger of the session that saved last
LastWriterLedger ==
    IF last_writer = "this" THEN trainer_stats
    ELSE Get(other_session).trainer_stats

\* the in-memory ledger of the session that did not save last
OtherLedger ==
    IF last_writer = "this" THEN Get(other_session).trainer_stats
    ELSE trainer_stats

---------------------------------------------------------------------------
(* Properties of the session *)

\* C1: every draw is scored at most once. A step that leaves the answered
\* flag set (a further answer before the next successful "Nouvelle main")
\* leaves the ledger and the last feedback unchanged, and the number of
\* history events never exceeds the number of successful draws.
C1_DrawScoredAtMostOnce ==
    /\ [](Len(trainer_stats.history) <= draws)
    /\ [][(answered_current_spot /\ answered_current_spot')
             => (trainer_stats' = trainer_stats /\ last_feedback' = last_feedback)]_vars

\* C1: both draws of a run answered and scored, the answer buttons still live
C1_EveryDrawScored ==
    /\ answered_current_spot
    /\ op = "answer_scored"
    /\ draws = 2
    /\ Len(trainer_stats.history) = 2

\* C4: when the presented spot carries no action assignment, the feedback of
\* an answer is ungraded (correct is None), whatever mode is selected when the
\* answer is submitted, and the ledger is left unchanged.
C4_FreeDrawUngraded ==
    [][(/\ current_spot # None
        /\ Get(current_spot).actions_for_spot = None
        /\ ~answered_current_spot
        /\ answered_current_spot')
          => (/\ last_feedback' # None
              /\ Get(last_feedback').correct = None
              /\ trainer_stats' = trainer_stats)]_vars

\* s1 holds every counter and every history event of s0, in the same order
LedgerGrows(s0, s1) ==
    /\ \A k \in DOMAIN s0.spots :
          /\ k \in DOMAIN s1.spots
          /\ s1.spots[k].success >= s0.spots[k].success
          /\ s1.spots[k].fail >= s0.spots[k].fail
    /\ s1.total.success >= s0.total.success
    /\ s1.total.fail >= s0.total.fail
    /\ Len(s1.history) >= Len(s0.history)
    /\ SubSeq(s1.history, 1, Len(s0.history)) = s0.history

\* C9: the spot counters, the global counters and the history only grow,
\* except for a reset, which sets all three to empty/zero in one step; no
\* state has only some of the three cleared.
C9_GrowsOrFullReset ==
    /\ []((trainer_stats.history = <<>>) = (trainer_stats.spots = <<>>))
    /\ []((trainer_stats.history = <<>>) =
            (trainer_stats.total = [success |-> 0, fail |-> 0]))
    /\ [][\/ LedgerGrows(trainer_stats, trainer_stats')
          \/ (op' = "reset" /\ trainer_stats' = default_stats_dict)]_vars

\* C9: a ledger that grew by two answers, one right and one wrong
C9_LedgerGrewTwice ==
    /\ Len(trainer_stats.history) = 2
    /\ trainer_stats.total = [success |-> 1, fail |-> 1]

\* the ledger a store holds (no row, no file: a default ledger)
Stored(row) == IF row = None THEN default_stats_dict ELSE Get(row)

\* C10: the ledger is saved after every judged answer that mutates it and
\* after a reset. While saves succeed, the persisted ledger (read from
\* Supabase or from the file) equals the session's ledger, and two
\* consecutive saves differ by at most one recorded answer.
C10_SavedAfterEveryMutation ==
    /\ []((save_result # "failed") =>
            (\A supabase_ok \in BOOLEAN :
                load_trainer_stats(supabase_ok) = trainer_stats))
    /\ [][(Stored(supabase_stats') # Stored(supabase_stats)) =>
            \/ Stored(supabase_stats') = default_stats_dict
            \/ /\ Len(Stored(supabase_stats').history) =
                      Len(Stored(supabase_stats).history) + 1
               /\ LedgerGrows(Stored(supabase_stats), Stored(supabase_stats'))]_vars

\* C10: the second judged answer of a run has been saved to both stores
C10_SecondAnswerSaved ==
    /\ op = "answer_scored"
    /\ save_result = "ok"
    /\ Len(trainer_stats.history) = 2
    /\ supabase_stats = Some(trainer_stats)
    /\ file_stats = Some(trainer_stats)

---------------------------------------------------------------------------
(* SpecEval: evaluate_answer applied to every answer, hand and assignment   *)
(* of a bounded family                                                      *)

\* how many hands of EvalPoolSeq the assignments under test may list
MaxListed == 2

EvalPoolSeq == <<Hand("A", "A", ""), Hand("7", "2", "o"), Hand("A", "K", "s")>>

EvalPool == {EvalPoolSeq[n] : n \in 1..(IF MaxListed < 3 THEN MaxListed ELSE 3)}

EvalKeys == {"fold", "open", "call"}

\* the list of the hands of S, in the order of EvalPoolSeq
ListOf(S) == SelectSeq(EvalPoolSeq, LAMBDA h : h \in S)

EvalAssignments ==
    {[a \in EvalKeys |-> ListOf(m[a])] : m \in [EvalKeys -> SUBSET EvalPool]}

InitEval ==
    /\ SessionInit
    /\ write_faults = FALSE
    /\ op = "init"
    /\ args \in [hero_action : Elems(ACTION_KEYS),
                  hero_hand : ALL_HANDS,
                  actions_for_spot : {None} \cup {Some(a) : a \in EvalAssignments}]
    /\ ret = None

EvalStep ==
    /\ ret = None
    /\ ret' = Some(evaluate_answer(args.hero_action, args.hero_hand,
                                   args.actions_for_spot))
    /\ op' = "evaluate_answer"
    /\ UNCHANGED <<session_vars, args>>

SpecEval == InitEval /\ [][EvalStep]_vars

\* the non-fold actions of the assignment under test that list the hand
EvalListing ==
    {a \in DOMAIN Get(args.actions_for_spot) \ {"fold"} :
        args.hero_hand \in Elems(Get(args.actions_for_spot)[a])}

\* C2: for a spot that carries an action assignment, evaluate_answer returns
\* True exactly when the action is one of the non-fold actions that list the
\* hand, or is fold when no non-fold action lists the hand - for every action
\* kind and every one of the 169 hand classes.
C2_EvaluateIffCorrectAction ==
    (ret # None /\ args.actions_for_spot # None) =>
        (Get(ret) = (args.hero_action \in
                        (IF EvalListing = {} THEN {"fold"} ELSE EvalListing)))

\* C2: AA listed under open and call (a mixed hand), "call" judged correct
C2_MixedHandJudged ==
    /\ ret = Some(TRUE)
    /\ args.hero_action = "call"
    /\ args.hero_hand = AA
    /\ args.actions_for_spot =
          Some([fold |-> <<>>, open |-> <<AA>>, call |-> <<AA>>])

\* C3: when the hand is listed under "fold" and under at least one non-fold
\* action of the spot, answering fold is judged correct.
C3_FoldAcceptedWhenMixed ==
    (/\ ret # None
     /\ args.actions_for_spot # None
     /\ args.hero_action = "fold"
     /\ args.hero_hand \in Elems(Get(args.actions_for_spot)["fold"])
     /\ EvalListing # {})
        => (Get(ret) = TRUE)

---------------------------------------------------------------------------
(* Ledgers reached by recording answers *)

RECURSIVE Replay(_, _)
\* stats after update_stats has recorded the events <<spot_key, success>>
Replay(stats, events) ==
    IF events = <<>> THEN stats
    ELSE Replay(update_stats(stats, Head(events)[1], Head(events)[2]),
                Tail(events))

\* n answers with the same outcome on one spot
Answers(spot_key, success, n) == [i \in 1..n |-> <<spot_key, success>>]

\* how many of the events are the answer <<spot_key, success>>
CountOf(events, spot_key, success) ==
    Cardinality({i \in DOMAIN events : events[i] = <<spot_key, success>>})

\* the ledger update_stats builds from an empty one when it records the
\* events one after the other, written in one piece: the counters of each
\* spot seen, the global counters and the history in order
Recorded(events) ==
    [spots |->
        [spot_key \in {events[i][1] : i \in DOMAIN events} |->
            [success |-> CountOf(events, spot_key, TRUE),
             fail |-> CountOf(events, spot_key, FALSE)]],
     total |->
        [success |-> Cardinality({i \in DOMAIN events : events[i][2]}),
         fail |-> Cardinality({i \in DOMAIN events : ~events[i][2]})],
     history |->
        [i \in DOMAIN events |->
            [spot_key |-> events[i][1], success |-> events[i][2]]]]

\* Recorded agrees with update_stats applied event by event, on every
\* sequence of at most 4 answers on two spots
RecordedIsReplay ==
    \A events \in UNION {[1..n -> {K_BTN, K_BB} \X BOOLEAN] : n \in 0..4} :
        Recorded(events) = Replay(default_stats_dict, events)

---------------------------------------------------------------------------
(* SpecDraw: draw_hand_for_spot applied to a family of action assignments   *)

\* how many hands the open list of the assignments under test holds at most
MaxPlayed == 2

\* the strings listed: five hand classes from the corners and the middle of
\* the grid, and a string that is no hand class
DrawPoolSeq ==
    <<AA, AKo, Hand("T", "9", "s"), Hand("7", "2", "o"), Hand("2", "2", ""),
      <<"a", "a">>>>

DrawAssignments ==
    {[fold |-> f, open |-> SelectSeq(DrawPoolSeq, LAMBDA h : h \in o),
      call |-> c] :
        f \in {<<>>, <<AA>>},
        o \in {S \in SUBSET Elems(DrawPoolSeq) : Cardinality(S) <= MaxPlayed},
        c \in {<<>>, <<Hand("2", "2", "")>>}}

InitDraw ==
    /\ SessionInit
    /\ write_faults = FALSE
    /\ op = "init"
    /\ args \in [actions_for_spot : DrawAssignments]
    /\ ret = None

DrawStep ==
    /\ ret = None
    /\ \E h \in draw_hand_for_spot(args.actions_for_spot, ALL_HANDS) :
          ret' = Some(h)
    /\ op' = "draw_hand_for_spot"
    /\ UNCHANGED <<session_vars, args>>

SpecDraw == InitDraw /\ [][DrawStep]_vars

\* N: the hand classes listed under any non-fold action
DrawPlayed ==
    {h \in ALL_HANDS :
        \E act \in DOMAIN args.actions_for_spot :
            act # "fold" /\ h \in Elems(args.actions_for_spot[act])}

\* the grid coordinate of a hand class: pairs on the diagonal, suited hands
\* above it (row of the high card), offsuit hands below it
DrawCell(h) ==
    LET hi == Index(RANKS, h[1])
        lo == Index(RANKS, h[2])
    IN  IF Len(h) = 2 THEN <<hi, hi>>
        ELSE IF h[3] = "s" THEN <<hi, lo>>
        ELSE <<lo, hi>>

\* the candidate set as the claim C16 states it
DrawCandidates ==
    LET played == DrawPlayed
    IN  IF played = {} THEN ALL_HANDS
        ELSE {h \in ALL_HANDS :
                 \E n \in played :
                     /\ DrawCell(h)[1] - DrawCell(n)[1] \in -2..2
                     /\ DrawCell(h)[2] - DrawCell(n)[2] \in -2..2}

\* C16: draw_hand_for_spot returns a member of the candidate set and every
\* member can be returned; the candidate set is all 169 classes when no
\* hand class is listed under a non-fold action, and otherwise those classes
\* and every class within Chebyshev distance 2 of one of them. For N = {AA}
\* these are the 9 classes of the rows and columns A, K, Q.
C16_DrawnFromCandidates ==
    /\ Cardinality(ALL_HANDS) = 169
    /\ \A c \in COORDS : DrawCell(canonical_hand_from_indices(c[1], c[2])) = c
    /\ (ret = None) =>
          (draw_hand_for_spot(args.actions_for_spot, ALL_HANDS) = DrawCandidates)
    /\ (ret # None) => (Get(ret) \in DrawCandidates)
    /\ (DrawPlayed = {AA}) =>
          /\ DrawCandidates =
                {Hand(RANKS[c[1] + 1], RANKS[c[2] + 1], "s") :
                    c \in {c \in COORDS : c[1] < c[2] /\ c[2] <= 2}}
                \cup {Hand(RANKS[c[2] + 1], RANKS[c[1] + 1], "o") :
                    c \in {c \in COORDS : c[2] < c[1] /\ c[1] <= 2}}
                \cup {Hand(RANKS[n], RANKS[n], "") : n \in 1..3}
          /\ Cardinality(DrawCandidates) = 9
          /\ {Hand("K", "K", ""), AKs, AKo} \subseteq DrawCandidates
          /\ Hand("7", "2", "o") \notin DrawCandidates

\* C16: the only hand played is AA and the hand dealt is KQo, at distance 2
C16_NeighbourOfAcesDealt ==
    /\ op = "draw_hand_for_spot"
    /\ DrawPlayed = {AA}
    /\ ret = Some(Hand("K", "Q", "o"))

\* C16: nothing is played and 72o has been dealt
C16_AnyHandWhenNothingPlayed ==
    /\ op = "draw_hand_for_spot"
    /\ DrawPlayed = {}
    /\ ret = Some(Hand("7", "2", "o"))

---------------------------------------------------------------------------
(* Loading a range document *)

\* load_ranges_file on a file holding the document data, a dict with the key
\* "spots" whose value is a dict: the document is returned as it is
load_ranges_file(data) ==
    IF "spots" \in DOMAIN data THEN data
    ELSE [version |-> 2, spots |-> NoSpots]

\* ACTIONS of range_editor_moduleV2.py: fold stays implicit
EDITOR_ACTION_KEYS == <<"open", "call", "threebet", "open_shove", "threebet_shove">>

\* the text an f-string writes for the position or the stack of a spot
fstring_of(spot, field) ==
    IF field \notin DOMAIN spot THEN "None"
    ELSE IF field = "stack" THEN STACK_LABELS[Index(STACKS, spot.stack) + 1]
    ELSE spot[field]

\* the underscore-separated segments of a scenario name
scenario_segments(scen) ==
    IF scen = "vs_open_BTN" THEN <<"vs", "open", "BTN">> ELSE <<scen>>

\* make_spot_key of the editor, for the spot it is built from
make_spot_key(spot) ==
    <<DictGet(spot, "table_type", "6-max"), fstring_of(spot, "position"),
      fstring_of(spot, "stack")>>
        \o scenario_segments(DictGet(spot, "scenario", "open"))

\* the entry new_spots[new_key] the editor builds from one spot of the
\* document; hand_actions keeps the hands found in ALL_HANDS only. The stack
\* is kept as the value of the document, None when the document has none;
\* a missing position is kept as the text the key shows for it.
editor_spot(spot) ==
    LET actions == DictGet(spot, "actions", <<>>)
        listed == UNION {Elems(DictGet(actions, act_name, <<>>)) :
                            act_name \in Elems(EDITOR_ACTION_KEYS)}
    IN  [table_type |-> DictGet(spot, "table_type", "6-max"),
         position |-> fstring_of(spot, "position"),
         stack |-> IF "stack" \in DOMAIN spot THEN Some(spot.stack) ELSE None,
         scenario |-> DictGet(spot, "scenario", "open"),
         hand_actions |->
            [h \in {x \in listed : x \in ALL_HANDS} |->
                {act_name \in Elems(EDITOR_ACTION_KEYS) :
                    h \in Elems(DictGet(actions, act_name, <<>>))}]]

\* spots_from_exported_data: Some(new_spots), the dict returned, or the
\* AttributeError of spot.get when a value of the document is not a dict.
\* Two spots that give the same new key: the later one stays.
spots_from_exported_data(data) ==
    IF "spots" \notin DOMAIN data THEN Some(<<>>)
    ELSE
        LET spots_json == data.spots
            old_keys == Elems(spots_json.order)
            last(new_key) ==
                CHOOSE n \in DOMAIN spots_json.order :
                    /\ make_spot_key(spots_json.at[spots_json.order[n]]) = new_key
                    /\ \A m \in DOMAIN spots_json.order :
                          make_spot_key(spots_json.at[spots_json.order[m]])
                              = new_key => m <= n
        IN  IF \E old_key \in old_keys : ~isinstance_dict(spots_json.at[old_key])
            THEN Raise("AttributeError")
            ELSE Some([new_key \in {make_spot_key(spots_json.at[old_key]) :
                                       old_key \in old_keys} |->
                         editor_spot(
                             spots_json.at[spots_json.order[last(new_key)]])])

---------------------------------------------------------------------------
(* SpecLoad: a document with one well-formed spot and at most one entry     *)
(* that is unknown or malformed, loaded by the editor and by the trainer    *)

\* the well-formed spot of the documents under test
GOOD_SPOT ==
    [table_type |-> "6-max", position |-> "BTN", stack |-> 100,
     scenario |-> "open", actions |-> [open |-> <<AA, AKs>>]]

K_CO == <<"6-max", "CO", "100", "open">>

\* the offending entries: a spot value that is not an object, under a key
\* that parses and under one that does not, and an object under a key whose
\* stack is not a number
BadEntries ==
    {<<K_CO, NOT_A_DICT>>, <<K_SHORT, NOT_A_DICT>>,
     <<K_NOSTACK, [table_type |-> "6-max", position |-> "BTN",
                   scenario |-> "open", actions |-> [open |-> <<AA>>]]>>}

\* the document {"version": 2, "spots": {...}} holding the entries in order
Document(entries) ==
    [version |-> 2,
     spots |-> [order |-> [n \in DOMAIN entries |-> entries[n][1]],
                at |-> [key \in {entries[n][1] : n \in DOMAIN entries} |->
                          (CHOOSE e \in Elems(entries) : e[1] = key)[2]]]]

LoadDocuments ==
    {Document(<<<<K_BTN, GOOD_SPOT>>>>)}
      \cup {Document(<<<<K_BTN, GOOD_SPOT>>, bad>>) : bad \in BadEntries}
      \cup {Document(<<bad, <<K_BTN, GOOD_SPOT>>>>) : bad \in BadEntries}

InitLoad ==
    /\ SessionInit
    /\ write_faults = FALSE
    /\ op = "init"
    /\ args \in [data : LoadDocuments,
                 table_type : {"6-max", "8-max"},
                 pos_choice : {"Aleatoire", "BTN", "CO"},
                 stack_choice_label : {"Aleatoire", "100", "50"}]
    /\ ret = None

\* the initial load of run_range_editor
EditorLoadStep ==
    /\ ret = None
    /\ ret' = Some(spots_from_exported_data(args.data))
    /\ op' = "spots_from_exported_data"
    /\ UNCHANGED <<session_vars, args>>

\* the document is the default range file of the trainer; Nouvelle main
TrainerDrawStep ==
    /\ ret = None
    /\ \E new_spot \in
            new_spot_and_hand("Avec ranges de correction", args.table_type,
                args.pos_choice, args.stack_choice_label, "Ranges par defaut",
                load_ranges_file(args.data), EMPTY_RANGES, default_stats_dict,
                80, <<"Tous">>, DealWindow) :
          ret' = Some(new_spot)
    /\ op' = "new_spot_and_hand"
    /\ UNCHANGED <<session_vars, args>>

NextLoad == EditorLoadStep \/ TrainerDrawStep

SpecLoad == InitLoad /\ [][NextLoad]_vars

\* C19: loading a range document never fails because one entry is unknown
\* or malformed: no exception escapes the load or the following draw, the
\* offending entry is skipped, and the well-formed entry is loaded and is
\* the spot drawn.
C19_MalformedEntrySkipped ==
    (ret # None) =>
        /\ ~is_raise(Get(ret))
        /\ (op = "spots_from_exported_data") =>
              (DOMAIN Get(Get(ret)) = {K_BTN})
        /\ (op = "new_spot_and_hand") =>
              /\ Get(ret) # None
              /\ Get(Get(ret)).spot_key = Some(K_BTN)

\* C19: the well-formed spot has been drawn from a document that also holds
\* an entry that is not an object
C19_GoodSpotDrawnBesideBadEntry ==
    /\ op = "new_spot_and_hand"
    /\ Len(args.data.spots.order) = 2
    /\ \E key \in Elems(args.data.spots.order) :
          ~isinstance_dict(args.data.spots.at[key])
    /\ ret # None
    /\ ~is_raise(Get(ret))
    /\ Get(ret) # None
    /\ Get(Get(ret)).spot_key = Some(K_BTN)

---------------------------------------------------------------------------
(* SpecHands: a range whose lists hold strings that are no hand class,      *)
(* loaded by the editor and by the trainer, then dealt from and judged      *)

\* how many strings the open list of the ranges under test holds at most
MaxStrings == 2

\* two hand classes, then strings that are none: wrong case ("aks"), no
\* suffix ("AK"), unknown rank ("1Ks"), wrong suffix ("AKx")
HandStrings ==
    <<AA, AKs, <<"a", "k", "s">>, <<"A", "K">>, <<"1", "K", "s">>,
      <<"A", "K", "x">>>>

HandAssignments ==
    {[open |-> SelectSeq(HandStrings, LAMBDA h : h \in o), call |-> c] :
        o \in {S \in SUBSET Elems(HandStrings) : Cardinality(S) <= MaxStrings},
        c \in {<<>>, <<<<"a", "a">>>>}}

InitHands ==
    /\ SessionInit
    /\ write_faults = FALSE
    /\ op = "init"
    /\ args \in [actions : HandAssignments,
                 hero_action : {"fold", "open", "call"},
                 hero_hand : {AA, AKs, AKo}]
    /\ ret = None

\* the document holding one spot with the assignment under test
HandsDocument ==
    Document(<<<<K_BTN, [GOOD_SPOT EXCEPT !.actions = args.actions]>>>>)

\* the assignment of the spot as the trainer holds it after the load
TrainerActions ==
    DictGet(load_ranges_file(HandsDocument).spots.at[K_BTN], "actions", <<>>)

HandsEditorLoadStep ==
    /\ ret = None
    /\ ret' = Some(spots_from_exported_data(HandsDocument))
    /\ op' = "spots_from_exported_data"
    /\ UNCHANGED <<session_vars, args>>

HandsTrainerLoadStep ==
    /\ ret = None
    /\ ret' = Some(load_ranges_file(HandsDocument))
    /\ op' = "load_ranges_file"
    /\ UNCHANGED <<session_vars, args>>

HandsDealStep ==
    /\ ret = None
    /\ \E h \in draw_hand_for_spot(TrainerActions, DealWindow) :
          ret' = Some(h)
    /\ op' = "draw_hand_for_spot"
    /\ UNCHANGED <<session_vars, args>>

HandsJudgeStep ==
    /\ ret = None
    /\ ret' = Some(evaluate_answer(args.hero_action, args.hero_hand,
                                   Some(TrainerActions)))
    /\ op' = "evaluate_answer"
    /\ UNCHANGED <<session_vars, args>>

NextHands ==
    \/ HandsEditorLoadStep
    \/ HandsTrainerLoadStep
    \/ HandsDealStep
    \/ HandsJudgeStep

SpecHands == InitHands /\ [][NextHands]_vars

\* the assignment with the strings that are no hand class dropped
Validated(actions) ==
    [act \in DOMAIN actions |->
        SelectSeq(actions[act], LAMBDA h : h \in ALL_HANDS)]

\* every string of the assignment is a hand class
AllCanonical(actions) ==
    \A act \in DOMAIN actions : Elems(actions[act]) \subseteq ALL_HANDS

\* the editor's load keeps the hand classes of the lists and nothing else
EditorLoadValidated ==
    (op = "spots_from_exported_data") =>
        /\ ~is_raise(Get(ret))
        /\ LET loaded == Get(Get(ret))[K_BTN].hand_actions
               valid == Validated(args.actions)
           IN  /\ DOMAIN loaded \subseteq ALL_HANDS
               /\ \A h \in ALL_HANDS, act \in DOMAIN valid :
                     (h \in DOMAIN loaded /\ act \in loaded[h])
                        = (h \in Elems(valid[act]))

\* the hands that can be dealt are those of the validated assignment
DealValidated ==
    /\ (ret = None) =>
          (get_candidate_hands_for_spot(TrainerActions, 2)
              = get_candidate_hands_for_spot(Validated(args.actions), 2))
    /\ (op = "draw_hand_for_spot") =>
          (Get(ret) \in get_candidate_hands_for_spot(
                            Validated(args.actions), 2))

\* the trainer's load keeps the hand classes of the lists and nothing else
TrainerLoadValidated ==
    (op = "load_ranges_file") =>
        AllCanonical(DictGet(Get(ret).spots.at[K_BTN], "actions", <<>>))

\* a hand class is judged as the validated assignment judges it
JudgeValidated ==
    (op = "evaluate_answer") =>
        (Get(ret) = evaluate_answer(args.hero_action, args.hero_hand,
                                    Some(Validated(args.actions))))

\* C20: every hand string of a loaded range is validated against the 169
\* hand classes and the other strings are dropped: such a string never
\* appears in the loaded assignment and changes neither which hands can be
\* dealt nor how a hand class is judged.
C20_InvalidStringsDropped ==
    /\ EditorLoadValidated
    /\ TrainerLoadValidated
    /\ DealValidated
    /\ JudgeValidated

---------------------------------------------------------------------------
(* SpecSource: new_spot_and_hand in the mode with correction ranges, for    *)
(* every choice of source and every pair of range files. EMPTY_RANGES is   *)
(* what load_ranges_file returns for a missing or unreadable file.          *)

InitSource ==
    /\ SessionInit
    /\ write_faults = FALSE
    /\ op = "init"
    /\ args \in [ranges_source : {"Ranges par defaut", "Ranges personnelles"},
                 default_ranges : {EMPTY_RANGES, DEFAULT_RANGES},
                 user_ranges : {EMPTY_RANGES, USER_RANGES},
                 table_type : {"6-max", "8-max"},
                 pos_choice : {"Aleatoire", "BTN", "CO"},
                 stack_choice_label : {"Aleatoire", "100"}]
    /\ ret = None

SourceStep ==
    /\ ret = None
    /\ \E new_spot \in
            new_spot_and_hand("Avec ranges de correction", args.table_type,
                args.pos_choice, args.stack_choice_label, args.ranges_source,
                args.default_ranges, args.user_ranges, default_stats_dict,
                80, <<"Tous">>, DealWindow) :
          ret' = Some(new_spot)
    /\ op' = "new_spot_and_hand"
    /\ UNCHANGED <<session_vars, args>>

SpecSource == InitSource /\ [][SourceStep]_vars

\* the spot keys of a range file
KeysOf(ranges) == Elems(DictGet(ranges, "spots", NoSpots).order)

\* the spot returned comes from the range file ranges
DrawnFrom(ranges) ==
    /\ Get(ret) # None
    /\ Get(Get(ret)).spot_key # None
    /\ Get(Get(Get(ret)).spot_key) \in KeysOf(ranges)

\* C18: one range set is used for a draw, chosen by the selected source with
\* fallback in both directions: the personal set when it is selected and not
\* empty, else the default set; the default set when it is selected and not
\* empty, else the personal set; no spot only when both sets are empty.
C18_SourceWithFallbackBothWays ==
    (ret # None) =>
        LET personal == KeysOf(args.user_ranges) # {}
            default == KeysOf(args.default_ranges) # {}
            wanted == IF args.ranges_source = "Ranges personnelles"
                      THEN IF personal THEN args.user_ranges
                           ELSE args.default_ranges
                      ELSE IF default THEN args.default_ranges
                           ELSE args.user_ranges
        IN  /\ (Get(ret) = None) = (~personal /\ ~default)
            /\ (personal \/ default) => DrawnFrom(wanted)

\* C18: the personal set is selected and empty, and the spot drawn comes from
\* the default set
C18_PersonalEmptyDefaultUsed ==
    /\ op = "new_spot_and_hand"
    /\ args.ranges_source = "Ranges personnelles"
    /\ KeysOf(args.user_ranges) = {}
    /\ ret # None
    /\ DrawnFrom(args.default_ranges)

---------------------------------------------------------------------------
(* Spots a retravailler: the leak ranking displayed under the drill         *)

\* the spot keys of the ledgers under test, in the order of Python's string
\* comparison of the joined keys ("6-max_BB_..." < "6-max_BTN_..." < ... <
\* "8-max_...")
RankKeySeq ==
    <<K_BB, K_BTN, <<"6-max", "CO", "100", "open">>,
      <<"6-max", "HJ", "100", "open">>, <<"6-max", "SB", "100", "open">>,
      <<"6-max", "UTG", "100", "open">>, K_CO8>>

\* sk1 < sk2 on strings
str_less(sk1, sk2) == Index(RankKeySeq, sk1) < Index(RankKeySeq, sk2)

\* acc = success / total * 100.0 is kept as the fraction <<success, total>>;
\* two accuracies compare as the fractions do
acc_less(acc1, acc2) == acc1[1] * acc2[2] < acc2[1] * acc1[2]

acc_equal(acc1, acc2) == acc1[1] * acc2[2] = acc2[1] * acc1[2]

\* the order of the tuples (acc, total, sk) that rows.sort() uses
row_less(row1, row2) ==
    \/ acc_less(row1[1], row2[1])
    \/ /\ acc_equal(row1[1], row2[1])
       /\ \/ row1[2] < row2[2]
          \/ row1[2] = row2[2] /\ str_less(row1[3], row2[3])

\* rows, before the sort: one tuple per spot seen at least min_total times
leak_rows(stats, min_total) ==
    LET spot_stats == DictGet(stats, "spots", <<>>)
    IN  {<<<<spot_stats[sk].success,
             spot_stats[sk].success + spot_stats[sk].fail>>,
           spot_stats[sk].success + spot_stats[sk].fail, sk>> :
            sk \in {k \in DOMAIN spot_stats :
                       spot_stats[k].success + spot_stats[k].fail >= min_total}}

\* sorted(rows)[:limit]
sorted_head(rows, limit) ==
    LET n == IF Cardinality(rows) < limit THEN Cardinality(rows) ELSE limit
    IN  [i \in 1..n |->
            CHOOSE row \in rows :
                Cardinality({other \in rows : row_less(other, row)}) = i - 1]

\* the ranking without the threshold of 5 attempts
leak_ranking_unfiltered(stats) == sorted_head(leak_rows(stats, 0), 5)

\* the list "worst" displayed under "Spots a retravailler" (empty when the
\* message "Pas encore assez de donnees" is shown instead)
leak_ranking(stats) == sorted_head(leak_rows(stats, 5), 5)

---------------------------------------------------------------------------
(* SpecRank: the leak ranking of the ledgers in which each spot has one of  *)
(* four records                                                             *)

\* how many spots the ledgers under test hold
MaxRanked == 6

RankKeys == {RankKeySeq[n] : n \in 1..(IF MaxRanked < 7 THEN MaxRanked ELSE 7)}

\* the records <<fail, success>> of a spot: 4 attempts (3 right), 5 attempts
\* (2 right), 5 attempts (all right), 6 attempts (4 right)
RankCounts == {<<1, 3>>, <<3, 2>>, <<0, 5>>, <<2, 4>>}

RECURSIVE RankEvents(_, _)
\* the answers that give the first n keys of RankKeySeq the records of counts
RankEvents(counts, n) ==
    IF n = 0 THEN <<>>
    ELSE RankEvents(counts, n - 1)
           \o Answers(RankKeySeq[n], FALSE, counts[RankKeySeq[n]][1])
           \o Answers(RankKeySeq[n], TRUE, counts[RankKeySeq[n]][2])

InitRank ==
    /\ SessionInit
    /\ write_faults = FALSE
    /\ op = "init"
    /\ \E counts \in [RankKeys -> RankCounts] :
          args = [stats |-> Recorded(RankEvents(counts,
                                                Cardinality(RankKeys)))]
    /\ ret = None

RankStep ==
    /\ ret = None
    /\ ret' = Some(leak_ranking(args.stats))
    /\ op' = "leak_ranking"
    /\ UNCHANGED <<session_vars, args>>

SpecRank == InitRank /\ [][RankStep]_vars

\* the attempts recorded on a spot
Attempts(sk) ==
    IF sk \in DOMAIN args.stats.spots
    THEN args.stats.spots[sk].success + args.stats.spots[sk].fail
    ELSE 0

\* the spots seen at least 5 times
Ranked == {sk \in DOMAIN args.stats.spots : Attempts(sk) >= 5}

\* the spot keys the ranking lists
Listed == {Get(ret)[i][3] : i \in 1..Len(Get(ret))}

\* accuracy of sk1 <= accuracy of sk2, from the ledger
NotMoreAccurate(sk1, sk2) ==
    args.stats.spots[sk1].success * Attempts(sk2)
        <= args.stats.spots[sk2].success * Attempts(sk1)

\* the ranking lists spots seen at least 5 times only, each once with its own
\* accuracy and attempts, in ascending order of accuracy
RankedAscending ==
    /\ Listed \subseteq Ranked
    /\ Cardinality(Listed) = Len(Get(ret))
    /\ \A i \in 1..Len(Get(ret)) :
          /\ Get(ret)[i][1] = <<args.stats.spots[Get(ret)[i][3]].success,
                                Attempts(Get(ret)[i][3])>>
          /\ Get(ret)[i][2] = Attempts(Get(ret)[i][3])
    /\ \A i \in 1..Len(Get(ret)), j \in 1..Len(Get(ret)) :
          (i < j) => NotMoreAccurate(Get(ret)[i][3], Get(ret)[j][3])

\* C17 as stated: the ranking holds no spot seen fewer than 5 times and
\* lists the remaining spots, all of them, in ascending order of accuracy.
C17_RankingListsAllRanked ==
    (ret # None) => (RankedAscending /\ Listed = Ranked)

\* C17, amended: the ranking holds no spot seen fewer than 5 times and lists
\* the five least accurate of the remaining spots (all of them when they are
\* at most five) in ascending order of accuracy.
C17_RankingListsFiveWorst ==
    (ret # None) =>
        /\ RankedAscending
        /\ Len(Get(ret)) =
              (IF Cardinality(Ranked) < 5 THEN Cardinality(Ranked) ELSE 5)
        /\ \A sk1 \in Listed, sk2 \in Ranked \ Listed :
              NotMoreAccurate(sk1, sk2)

\* C17: six spots have been seen at least 5 times, with different
\* accuracies, and the ranking lists five of them
C17_SixthSpotNotListed ==
    /\ op = "leak_ranking"
    /\ ret # None
    /\ Cardinality(Ranked) = 6
    /\ Len(Get(ret)) = 5
    /\ \E sk1 \in Listed, sk2 \in Listed : ~NotMoreAccurate(sk1, sk2)

---------------------------------------------------------------------------
(* SpecWeight: get_spot_weight applied to the ledgers holding every pair of *)
(* counts on one spot                                                       *)

\* the largest number of failures, and of successes, recorded on the spot
MaxCount == 7

\* the ledger after fail wrong and success right answers on K_BTN
CountedLedger(fail, success) ==
    Replay(default_stats_dict,
           Answers(K_BTN, FALSE, fail) \o Answers(K_BTN, TRUE, success))

InitWeight ==
    /\ SessionInit
    /\ write_faults = FALSE
    /\ op = "init"
    /\ args \in [fail : 0..MaxCount, success : 0..MaxCount,
                 spot_key : {K_BTN, K_BB}]
    /\ ret = None

WeightStep ==
    /\ ret = None
    /\ ret' = Some(get_spot_weight(CountedLedger(args.fail, args.success),
                                   args.spot_key))
    /\ op' = "get_spot_weight"
    /\ UNCHANGED <<session_vars, args>>

SpecWeight == InitWeight /\ [][WeightStep]_vars

\* C13: the weight of a spot is max(0.2, 1.0 + fail - 0.3 * success) (here in
\* tenths) for all non-negative counts: never below 0.2, exactly 1.0 for a
\* spot without recorded result, not smaller with one more failure and not
\* larger with one more success.
C13_WeightFormula ==
    (ret # None) =>
        LET f == IF args.spot_key = K_BTN THEN args.fail ELSE 0
            s == IF args.spot_key = K_BTN THEN args.success ELSE 0
            w == Get(ret)
        IN  /\ w = Max2(2, 10 + 10 * f - 3 * s)
            /\ w >= 2
            /\ (f = 0 /\ s = 0) => (w = 10)
            /\ get_spot_weight(CountedLedger(args.fail + 1, args.success),
                               K_BTN)
                  >= get_spot_weight(CountedLedger(args.fail, args.success),
                                     K_BTN)
            /\ get_spot_weight(CountedLedger(args.fail, args.success + 1),
                               K_BTN)
                  <= get_spot_weight(CountedLedger(args.fail, args.success),
                                     K_BTN)

\* C13: after 3 failures and 1 success the spot weighs 3.7, more than the 1.0
\* of a spot without recorded result
C13_FailedSpotHeavier ==
    /\ op = "get_spot_weight"
    /\ args.spot_key = K_BTN
    /\ args.fail = 3
    /\ args.success = 1
    /\ ret = Some(37)
    /\ Get(ret) > get_spot_weight(CountedLedger(3, 1), K_BB)
    /\ get_spot_weight(CountedLedger(3, 1), K_BB) = 10

\* C13: the floor is reached: four successes and no failure weigh 0.2
C13_FloorReached ==
    /\ args.spot_key = K_BTN
    /\ args.fail = 0
    /\ args.success = 4
    /\ ret = Some(2)

---------------------------------------------------------------------------
(* SpecPick: pick_spot_for_training applied to every pool, filter and draw  *)
(* of a bounded family                                                      *)

PickKeys == {K_BTN, K_BB, K_CO8, K_BBOPEN, K_NOSTACK, K_SHORT}

\* how many keys the pools under test hold at most
MaxPool == 2

\* the pools: lists of distinct keys (the keys of a dict)
PickPools ==
    {pool \in UNION {[1..n -> PickKeys] : n \in 0..MaxPool} :
        \A i \in DOMAIN pool, j \in DOMAIN pool : pool[i] = pool[j] => i = j}

InitPick ==
    /\ SessionInit
    /\ write_faults = FALSE
    /\ op = "init"
    /\ args \in [available_spot_keys : PickPools,
                 pos_choice : {"Aleatoire", "BTN", "BB", "CO"},
                 stack_choice_label : {"Aleatoire", "100", "50"},
                 table_type_filter : {"6-max", "8-max"},
                 stats : {default_stats_dict,
                          Replay(default_stats_dict, Answers(K_BTN, FALSE, 2))}]
    /\ ret = None

PickStep ==
    /\ ret = None
    /\ \E r \in uniform_draws(pick_pool(args.available_spot_keys, args.pos_choice,
                                 args.stack_choice_label, args.table_type_filter),
                              args.stats) :
          ret' = Some(pick_spot_for_training(args.available_spot_keys,
                          args.pos_choice, args.stack_choice_label, args.stats,
                          args.table_type_filter, r))
    /\ op' = "pick_spot_for_training"
    /\ UNCHANGED <<session_vars, args>>

SpecPick == InitPick /\ [][PickStep]_vars

\* the keys of the pool under test that pass every filter of the loop
PickMatching ==
    {key \in Elems(args.available_spot_keys) :
        passes_filters(key, args.pos_choice, args.stack_choice_label,
                       args.table_type_filter)}

\* the keys pick_spot_for_training can return for the arguments under test
PickOutcomes ==
    {pick_spot_for_training(args.available_spot_keys, args.pos_choice,
         args.stack_choice_label, args.stats, args.table_type_filter, r) :
        r \in uniform_draws(pick_pool(args.available_spot_keys, args.pos_choice,
                                args.stack_choice_label, args.table_type_filter),
                            args.stats)}

\* the pool the roulette wheel runs on for the arguments under test
PickPool ==
    pick_pool(args.available_spot_keys, args.pos_choice,
              args.stack_choice_label, args.table_type_filter)

\* the cells of the draw range [0, total_w): cell j is the open interval of
\* draws between j and j + 1 tenths. A draw r inside cell j satisfies
\* r <= acc exactly when j + 1 <= acc, acc being a whole number of tenths.
DrawCells(pool) == 0..(SumWeights(pool, args.stats, Len(pool)) - 1)

\* the cells whose draws select the key at position n of the pool
CellsSelecting(pool, n) ==
    {j \in DrawCells(pool) : roulette(pool, args.stats, j + 1) = pool[n]}

\* C14: the weighted pick is a fair weighted sample. The draw range
\* [0, total_w) is split into consecutive sub-ranges, one per key in pool
\* order, and the sub-range selecting a key has exactly the size of its
\* weight.
C14_SubRangeIsWeight ==
    LET pool == PickPool
    IN  \A n \in 1..Len(pool) :
            LET cells == CellsSelecting(pool, n)
            IN  /\ cells = SumWeights(pool, args.stats, n - 1)
                             .. (SumWeights(pool, args.stats, n) - 1)
                /\ Cardinality(cells) = get_spot_weight(args.stats, pool[n])

\* C14: a pool of a spot failed twice (weight 3.0) and a spot never played
\* (weight 1.0): the second key has been picked, from a sub-range three times
\* smaller than that of the first
C14_LighterKeyPicked ==
    /\ op = "pick_spot_for_training"
    /\ PickPool = <<K_BTN, K_BB>>
    /\ get_spot_weight(args.stats, K_BTN) = 30
    /\ get_spot_weight(args.stats, K_BB) = 10
    /\ ret = Some(Some(K_BB))
    /\ Cardinality(CellsSelecting(PickPool, 1))
          = 3 * Cardinality(CellsSelecting(PickPool, 2))

---------------------------------------------------------------------------
(* SpecStarve: the pick after every pair of counts recorded on one spot     *)

InitStarve ==
    /\ SessionInit
    /\ write_faults = FALSE
    /\ op = "init"
    /\ args \in [available_spot_keys : {<<K_BTN>>, <<K_BTN, K_BB>>,
                                        <<K_BB, K_BTN>>,
                                        <<K_CO8, K_BTN, K_BB>>},
                 pos_choice : {"Aleatoire", "BTN"},
                 stack_choice_label : {"Aleatoire"},
                 table_type_filter : {"6-max"},
                 stats : {CountedLedger(fail, success) :
                             fail \in 0..MaxCount, success \in 0..MaxCount}]
    /\ ret = None

SpecStarve == InitStarve /\ [][PickStep]_vars

\* C15: no spot is starved. Whatever results have been recorded, every key
\* of the filtered pool has a strictly positive weight and a sub-range of
\* draws that returns it, and the pick returns a member of the pool.
C15_NoSpotStarved ==
    LET pool == PickPool
        outcomes == PickOutcomes
    IN  /\ \A n \in 1..Len(pool) :
              /\ get_spot_weight(args.stats, pool[n]) > 0
              /\ CellsSelecting(pool, n) # {}
              /\ Some(pool[n]) \in outcomes
        /\ (ret # None) => (Get(ret) \in {Some(key) : key \in Elems(pool)})

\* C15: after seven successes and no failure on it, the spot has still been
\* picked from a pool it shares with a spot never played
C15_MasteredSpotPicked ==
    /\ op = "pick_spot_for_training"
    /\ PickPool = <<K_BTN, K_BB>>
    /\ args.stats = CountedLedger(0, 7)
    /\ get_spot_weight(args.stats, K_BTN) = 2
    /\ ret = Some(Some(K_BTN))

---------------------------------------------------------------------------
\* C5: pick_spot_for_training returns None only when the pool of keys is
\* empty; when the filters match no key it falls back to the unfiltered pool
\* and returns one of its keys (each of them for some draw).
C5_NoneOnlyWhenPoolEmpty ==
    /\ (ret # None) =>
          /\ (Get(ret) = None) = (args.available_spot_keys = <<>>)
          /\ (Get(ret) # None) =>
                (Get(Get(ret)) \in Elems(args.available_spot_keys))
    /\ (PickMatching = {} /\ args.available_spot_keys # <<>>) =>
          (PickOutcomes = {Some(key) : key \in Elems(args.available_spot_keys)})

\* C5: a 6-max request on a pool holding only an 8-max spot returns that spot
C5_FallbackTaken ==
    /\ ret = Some(Some(K_CO8))
    /\ args.available_spot_keys = <<K_CO8>>
    /\ args.table_type_filter = "6-max"

\* the returned key has the requested table format, and the requested position
\* and stack when these are not "Aleatoire"
PickedMatchesRequest ==
    LET parsed == parse_key(Get(Get(ret)))
    IN  /\ parsed # None
        /\ Get(parsed).ttype = args.table_type_filter
        /\ (args.pos_choice # "Aleatoire") => (Get(parsed).pos = args.pos_choice)
        /\ (args.stack_choice_label # "Aleatoire") =>
              (Some(Get(parsed).stack) = py_int(args.stack_choice_label))

\* C6 (as stated): the key returned by pick_spot_for_training always has the
\* requested table format, and matches the position filter and the stack
\* filter whenever that filter is not "Aleatoire".
C6_AlwaysMatchesRequest ==
    (ret # None /\ Get(ret) # None) => PickedMatchesRequest

\* C6 (amended): when at least one key of the pool passes the filters, the
\* returned key has the requested table format, and matches the position
\* filter and the stack filter whenever that filter is not "Aleatoire".
C6_MatchesRequestWhenSomeKeyDoes ==
    (ret # None /\ Get(ret) # None /\ PickMatching # {}) => PickedMatchesRequest

\* C6: the 6-max BTN 100 spot picked from a pool that also holds an 8-max spot
C6_MatchingKeyPicked ==
    /\ ret = Some(Some(K_BTN))
    /\ args.available_spot_keys = <<K_CO8, K_BTN>>
    /\ args.table_type_filter = "6-max"
    /\ args.pos_choice = "BTN"
    /\ args.stack_choice_label = "100"

---------------------------------------------------------------------------
(* SpecLedger: update_stats applied to every ledger of a bounded family     *)

\* how many answers the ledgers under test have recorded
MaxEvents == 3

LedgerKeys == {K_BTN, K_BB}

\* the ledgers reached from an empty one by at most MaxEvents answers
ReachedLedgers ==
    {Replay(default_stats_dict, events) :
        events \in UNION {[1..n -> LedgerKeys \X BOOLEAN] : n \in 0..MaxEvents}}

\* a ledger saved before the history existed: load_trainer_stats accepts any
\* dict that has "spots" and "total"
WithoutHistory(stats) == [spots |-> stats.spots, total |-> stats.total]

InitLedger ==
    /\ SessionInit
    /\ write_faults = FALSE
    /\ op = "init"
    /\ args \in [stats : ReachedLedgers \cup
                            {WithoutHistory(l) : l \in ReachedLedgers},
                 spot_key : {K_BTN, K_BB, K_CO8},
                 success : BOOLEAN]
    /\ ret = None

LedgerStep ==
    /\ ret = None
    /\ ret' = Some(update_stats(args.stats, args.spot_key, args.success))
    /\ op' = "update_stats"
    /\ UNCHANGED <<session_vars, args>>

SpecLedger == InitLedger /\ [][LedgerStep]_vars

\* the counters of a spot in a ledger (a spot never answered has none)
CountersOf(stats, spot_key) ==
    DictGet(stats.spots, spot_key, [success |-> 0, fail |-> 0])

\* counters c1 are counters c0 with one more success or one more fail
OneMore(c0, c1, success) ==
    /\ c1.success = c0.success + (IF success THEN 1 ELSE 0)
    /\ c1.fail = c0.fail + (IF success THEN 0 ELSE 1)

\* C8: update_stats(stats, k, success) adds exactly 1 to the success or the
\* fail counter of spot k and to the same global counter, appends exactly one
\* event (k, success) at the end of the history, and leaves every other
\* spot's counters, the other global counter and all earlier events as they
\* were.
C8_UpdateStatsFrame ==
    (ret # None) =>
        LET s0 == args.stats
            s1 == Get(ret)
            h0 == DictGet(s0, "history", <<>>)
        IN  /\ DOMAIN s1.spots = DOMAIN s0.spots \cup {args.spot_key}
            /\ OneMore(CountersOf(s0, args.spot_key),
                       CountersOf(s1, args.spot_key), args.success)
            /\ \A k \in DOMAIN s0.spots \ {args.spot_key} :
                  s1.spots[k] = s0.spots[k]
            /\ OneMore(s0.total, s1.total, args.success)
            /\ Len(s1.history) = Len(h0) + 1
            /\ SubSeq(s1.history, 1, Len(h0)) = h0
            /\ s1.history[Len(s1.history)] =
                  [spot_key |-> args.spot_key, success |-> args.success]

\* C8: a failure on K_BB recorded in a ledger that held answers on K_BTN only
C8_NewSpotRecorded ==
    /\ ret # None
    /\ args.spot_key = K_BB
    /\ ~args.success
    /\ args.stats = Replay(default_stats_dict, Answers(K_BTN, TRUE, 2))
    /\ Get(ret).spots[K_BB] = [success |-> 0, fail |-> 1]
    /\ Len(Get(ret).history) = 3

---------------------------------------------------------------------------
(* SpecFocus: new_spot_and_hand in "Focus leak" mode, for every ledger,     *)
(* filter and threshold of a bounded family                                 *)

\* a range file with a spot of each kind
LEAK_RANGES ==
    [version |-> 2,
     spots |->
        [order |-> <<K_BTN, K_BB, K_BBOPEN, K_CO8, K_NOSTACK>>,
         at |-> (K_BTN :> [scenario |-> "open",
                           actions |-> [open |-> <<AA, AKs>>]])
             @@ (K_BB :> [scenario |-> "vs_open_BTN",
                          actions |-> [call |-> <<AKs>>, threebet |-> <<AA>>]])
             @@ (K_BBOPEN :> [scenario |-> "open",
                              actions |-> [open |-> <<AA>>]])
             @@ (K_CO8 :> [scenario |-> "open",
                           actions |-> [open_shove |-> <<AA>>]])
             @@ (K_NOSTACK :> [scenario |-> "open",
                               actions |-> [open |-> <<AA>>]])]]

\* <<success, fail>> of a spot: never answered, 4 of 4, 4 of 5 (80%),
\* 3 of 5 (60%), 5 of 5
FocusCounts == {<<0, 0>>, <<4, 0>>, <<4, 1>>, <<3, 2>>, <<5, 0>>}

\* the ledger after the answers counted by c on spot_key
Answered(stats, spot_key, c) ==
    Replay(stats, Answers(spot_key, TRUE, c[1]) \o Answers(spot_key, FALSE, c[2]))

FocusLedgers ==
    {Answered(Answered(Answered(default_stats_dict, K_BTN, c1), K_BB, c2),
              K_BBOPEN, c3) :
        c1 \in FocusCounts, c2 \in FocusCounts, c3 \in FocusCounts}

InitFocus ==
    /\ SessionInit
    /\ write_faults = FALSE
    /\ op = "init"
    /\ args \in [table_type : {"6-max", "8-max"},
                 pos_choice : {"Aleatoire", "BTN", "BB"},
                 stack_choice_label : {"Aleatoire", "100", "50"},
                 focus_threshold : {80, 100},
                 focus_scenario : {<<"Tous">>, <<"open">>},
                 stats : FocusLedgers]
    /\ ret = None

\* what new_spot_and_hand can return for the arguments under test
FocusOutcomes ==
    new_spot_and_hand("Focus leak", args.table_type, args.pos_choice,
        args.stack_choice_label, "Ranges par defaut", LEAK_RANGES, EMPTY_RANGES,
        args.stats, args.focus_threshold, args.focus_scenario, DealWindow)

FocusStep ==
    /\ ret = None
    /\ \E new_spot \in FocusOutcomes : ret' = Some(new_spot)
    /\ op' = "new_spot_and_hand"
    /\ UNCHANGED <<session_vars, args>>

SpecFocus == InitFocus /\ [][FocusStep]_vars

\* at least 5 recorded attempts and accuracy at or above the threshold
Mastered(key) ==
    LET c == CountersOf(args.stats, key)
    IN  /\ c.success + c.fail >= 5
        /\ 100 * c.success >= args.focus_threshold * (c.success + c.fail)

\* key passes the table, position, stack and scenario filters under test
InFocusFilters(key) ==
    /\ parse_key(key) # None
    /\ Get(parse_key(key)).ttype = args.table_type
    /\ (args.pos_choice # "Aleatoire") =>
          (Get(parse_key(key)).pos = args.pos_choice)
    /\ (args.stack_choice_label # "Aleatoire") =>
          (Some(Get(parse_key(key)).stack) = py_int(args.stack_choice_label))
    /\ (args.focus_scenario # <<"Tous">>) =>
          (Get(parse_key(key)).scen = args.focus_scenario)

\* the spots of the range file that pass the filters and are not mastered
Eligible ==
    {key \in Elems(LEAK_RANGES.spots.order) :
        InFocusFilters(key) /\ ~Mastered(key)}

\* C7: in Focus leak mode a spot with at least 5 attempts and accuracy at or
\* above the threshold is never selected; a spot with fewer than 5 attempts
\* or accuracy below the threshold stays eligible (it is drawn for some
\* outcome of the random source, "open" from the big blind aside); when no
\* eligible spot passes the filters the result is None, and no spot outside
\* the eligible set is ever returned.
C7_FocusLeakOnlyEligible ==
    LET outcomes == FocusOutcomes
        drawn == {Get(Get(o).spot_key) : o \in outcomes \ {None}}
        eligible == Eligible
    IN  /\ (ret # None /\ Get(ret) # None) =>
              /\ Get(Get(Get(ret)).spot_key) \in eligible
              /\ ~Mastered(Get(Get(Get(ret)).spot_key))
        /\ (ret # None /\ eligible = {}) => (Get(ret) = None)
        /\ (eligible = {}) = (outcomes = {None})
        /\ drawn \subseteq eligible
        /\ \A key \in eligible :
              ~(/\ Get(parse_key(key)).scen = <<"open">>
                /\ Get(parse_key(key)).pos = "BB")
                  => (key \in drawn)

\* C7: the big blind's spot is dealt while the button's spot, which passes the
\* same filters, is mastered (5 of 5)
C7_LeakDrawnMasteredSkipped ==
    /\ ret # None
    /\ Get(ret) # None
    /\ Get(Get(ret)).spot_key = Some(K_BB)
    /\ args.pos_choice = "Aleatoire"
    /\ args.stack_choice_label = "100"
    /\ CountersOf(args.stats, K_BTN) = [success |-> 5, fail |-> 0]
    /\ Mastered(K_BTN)
    /\ InFocusFilters(K_BTN)

---------------------------------------------------------------------------
(* The range editor: range_editor_moduleV2.py *)

\* the characters of the hand classes in code point order, the order in
\* which sorted() compares two strings
CODE_POINTS ==
    <<"2", "3", "4", "5", "6", "7", "8", "9", "A", "J", "K", "Q", "T", "o", "s">>

\* s1 < s2 on two strings
py_str_less(s1, s2) ==
    \/ \E n \in 1..Len(s1) :
          /\ n <= Len(s2)
          /\ \A m \in 1..(n - 1) : s1[m] = s2[m]
          /\ Index(CODE_POINTS, s1[n]) < Index(CODE_POINTS, s2[n])
    \/ /\ Len(s1) < Len(s2)
       /\ \A m \in 1..Len(s1) : s1[m] = s2[m]

\* how many hand classes sorted() puts before each hand class
HANDS_BEFORE ==
    [h \in ALL_HANDS |-> Cardinality({x \in ALL_HANDS : py_str_less(x, h)})]

\* sorted(ALL_HANDS)
SORTED_ALL_HANDS ==
    [n \in 1..Cardinality(ALL_HANDS) |->
        CHOOSE h \in ALL_HANDS : HANDS_BEFORE[h] = n - 1]

\* sorted(hands) for a list of distinct hand classes
py_sorted(hands) == SelectSeq(SORTED_ALL_HANDS, LAMBDA h : h \in hands)

\* the dict "actions" of one exported spot, where a hand with several
\* actions is listed under the first of them only
export_actions_first_only(hand_actions) ==
    LET acts_of(h) == DictGet(hand_actions, h, {})
        first_of(h) ==
            EDITOR_ACTION_KEYS[CHOOSE n \in 1..Len(EDITOR_ACTION_KEYS) :
                /\ EDITOR_ACTION_KEYS[n] \in acts_of(h)
                /\ \A m \in 1..(n - 1) : EDITOR_ACTION_KEYS[m] \notin acts_of(h)]
        hands_under(act) ==
            IF act = "fold" THEN {h \in ALL_HANDS : acts_of(h) = {}}
            ELSE {h \in ALL_HANDS :
                    /\ acts_of(h) \cap Elems(EDITOR_ACTION_KEYS) # {}
                    /\ first_of(h) = act}
        present == {act \in Elems(ACTION_KEYS) : hands_under(act) # {}}
    IN  [act \in present |-> py_sorted(hands_under(act))]

\* the dict "actions" of one exported spot, without the list "fold"
export_actions_without_fold(hand_actions) ==
    LET acts_of(h) == DictGet(hand_actions, h, {})
        hands_under(act) == {h \in ALL_HANDS : act \in acts_of(h)}
        present == {act \in Elems(EDITOR_ACTION_KEYS) : hands_under(act) # {}}
    IN  [act \in present |-> py_sorted(hands_under(act))]

\* the dict "actions" of one exported spot: the loop over ALL_HANDS fills
\* actions_dict, a hand without action goes under "fold", each list is sorted
export_actions(hand_actions) ==
    LET acts_of(h) == DictGet(hand_actions, h, {})
        hands_under(act) ==
            IF act = "fold" THEN {h \in ALL_HANDS : acts_of(h) = {}}
            ELSE {h \in ALL_HANDS : act \in acts_of(h)}
        present == {act \in Elems(ACTION_KEYS) : hands_under(act) # {}}
    IN  [act \in present |-> py_sorted(hands_under(act))]

\* export_spots[key] for one spot of the editor. A stack of None is written
\* as null; every reader takes the stack with .get, so the field is left out.
export_spot(spot) ==
    [table_type |-> spot.table_type, position |-> spot.position,
     scenario |-> spot.scenario,
     actions |-> export_actions(spot.hand_actions)]
        @@ (IF spot.stack = None THEN <<>> ELSE [stack |-> Get(spot.stack)])

\* prepare_export_spots: the spots in the order of spots_dict
prepare_export_spots(spots_dict) ==
    [order |-> spots_dict.order,
     at |-> [key \in Elems(spots_dict.order) |->
                export_spot(spots_dict.at[key])]]

\* the keys of a dict in insertion order, after the assignments d[k] = ...
\* made for the keys of the list in turn
RECURSIVE insertion_order(_)
insertion_order(keys) ==
    IF keys = <<>> THEN <<>>
    ELSE LET front == insertion_order(SubSeq(keys, 1, Len(keys) - 1))
             k == keys[Len(keys)]
         IN  IF k \in Elems(front) THEN front ELSE Append(front, k)

\* st.session_state.spots after spots_from_exported_data(data), for a
\* document whose spots are objects: new_spots with its keys in order
loaded_spots(data) ==
    [order |-> IF "spots" \notin DOMAIN data THEN <<>>
               ELSE insertion_order(
                        [n \in DOMAIN data.spots.order |->
                            make_spot_key(data.spots.at[data.spots.order[n]])]),
     at |-> Get(spots_from_exported_data(data))]

\* d[k] = v on a dict kept with the order of its keys
dict_set(d, k, v) ==
    [order |-> IF k \in Elems(d.order) THEN d.order ELSE Append(d.order, k),
     at |-> Put(d.at, k, v)]

\* the scenario a key carries after split("_", 3)
scenario_text(segments) ==
    IF segments = <<"vs", "open", "BTN">> THEN "vs_open_BTN" ELSE segments[1]

\* the spot update_hand_action and run_range_editor start from when the
\* key is not in the session yet
fresh_spot(table_type, position, stack, scenario) ==
    [table_type |-> table_type, position |-> position, stack |-> Some(stack),
     scenario |-> scenario, hand_actions |-> <<>>]

\* hand_actions after a click that adds the action and never takes it back
click_adding_only(hand_actions, current_action, hand_code) ==
    IF current_action = "effacer"
    THEN [h \in DOMAIN hand_actions \ {hand_code} |-> hand_actions[h]]
    ELSE Put(hand_actions, hand_code,
             DictGet(hand_actions, hand_code, {}) \cup {current_action})

\* hand_actions after the body of update_hand_action: "effacer" deletes the
\* hand, another action is taken out of the set of the hand when it is in
\* it and put in otherwise, and a hand left without action is deleted
click(hand_actions, current_action, hand_code) ==
    IF current_action = "effacer"
    THEN [h \in DOMAIN hand_actions \ {hand_code} |-> hand_actions[h]]
    ELSE LET s0 == DictGet(hand_actions, hand_code, {})
             s == IF current_action \in s0 THEN s0 \ {current_action}
                  ELSE s0 \cup {current_action}
         IN  IF s # {} THEN Put(hand_actions, hand_code, s)
             ELSE [h \in DOMAIN hand_actions \ {hand_code} |-> hand_actions[h]]

\* update_hand_action(spot_key, hand_code): st.session_state.spots after
\* the callback
update_hand_action(spots, current_action, spot_key, hand_code) ==
    LET parsed == Get(parse_key(spot_key))
        spot == IF spot_key \in Elems(spots.order) THEN spots.at[spot_key]
                ELSE fresh_spot(parsed.ttype, parsed.pos, parsed.stack,
                                scenario_text(parsed.scen))
        hand_actions == click(spot.hand_actions, current_action, hand_code)
    IN  dict_set(spots, spot_key,
                 [spot EXCEPT !.hand_actions = hand_actions])

\* the spot selected by the widgets when the script runs first: the table
\* type of the first key in sorted order ("6-max" when there is no spot),
\* the first position of the table type, the first stack and, the first
\* position having no other scenario, "open"
default_selection(spots) ==
    LET table_type ==
            IF spots.order = <<>> \/ \E key \in Elems(spots.order) : key[1] = "6-max"
            THEN "6-max" ELSE "8-max"
    IN  [table_type |-> table_type,
         position |-> IF table_type = "6-max" THEN POSITIONS_6MAX[1]
                      ELSE POSITIONS_8MAX[1],
         stack |-> STACKS[1], scenario |-> "open"]

\* the end of the script of run_range_editor: the spot selected by the
\* widgets is stored under its key with the fields the widgets show and
\* the hand_actions the session holds for the key
store_current(spots, selection) ==
    LET spot_key == make_spot_key(selection)
        stored ==
            IF spot_key \in Elems(spots.order) THEN spots.at[spot_key]
            ELSE fresh_spot(selection.table_type, selection.position,
                            selection.stack, selection.scenario)
    IN  dict_set(spots, spot_key,
                 [table_type |-> selection.table_type,
                  position |-> selection.position,
                  stack |-> Some(selection.stack),
                  scenario |-> selection.scenario,
                  hand_actions |-> stored.hand_actions])

\* available_scenarios of a position of the 6-max table
available_scenarios(position) ==
    <<"open">> \o [n \in 1..Index(POSITIONS_6MAX, position) |->
                     IF POSITIONS_6MAX[n] = "BTN" THEN "vs_open_BTN"
                     ELSE "vs_open_other"]

---------------------------------------------------------------------------
(* SpecEditor: the range editor on a loaded range set; every run of the     *)
(* script ends with the export of the session's spots                       *)

\* how many times the user acts on a widget of the editor at most
MaxRuns == 3

\* the hands clicked on, and a hand that never is
ClickHands == {AA, AKs}

\* a range with a spot that has neither stack nor table type
NOSTACK_RANGES ==
    [version |-> 2,
     spots |->
        [order |-> <<K_NOSTACK, K_BTN>>,
         at |-> (K_NOSTACK :> [position |-> "BTN", scenario |-> "open",
                               actions |-> [call |-> <<AKo, AA>>,
                                            fold |-> <<AKs>>]])
             @@ (K_BTN :> [table_type |-> "6-max", position |-> "BTN",
                           stack |-> 100, scenario |-> "open",
                           actions |-> [open |-> <<AKs, AA, <<"a", "k", "s">>>>,
                                        open_shove |-> <<AA>>]])]]

EditorDocuments == {EMPTY_RANGES, DEFAULT_RANGES, USER_RANGES, NOSTACK_RANGES}

\* the session of the trainer, which the editor leaves alone
TrainerIdle ==
    /\ trainer_stats = default_stats_dict
    /\ current_spot = None
    /\ last_feedback = None
    /\ answered_current_spot = FALSE
    /\ trainer_mode = MODES[2]
    /\ supabase_stats = None
    /\ file_stats = None
    /\ save_result = "none"
    /\ other_session = None
    /\ last_writer = "none"
    /\ draws = 0
    /\ write_faults = FALSE
    /\ users = FIRST_LOGIN

\* the first run of the script: the ranges of the user are loaded, the
\* widgets show their first options, the selected spot is stored
InitEditor ==
    /\ TrainerIdle
    /\ op = "run_range_editor"
    /\ args \in [data : EditorDocuments]
    /\ editor = [spots |-> store_current(loaded_spots(args.data),
                              default_selection(loaded_spots(args.data))),
                 current_action |-> "open",
                 selection |-> Some(default_selection(loaded_spots(args.data))),
                 runs |-> 0]
    /\ ret = None

\* what a run of the script leaves alone
editor_frame == <<trainer_stats, current_spot, last_feedback,
                  answered_current_spot, trainer_mode, supabase_stats,
                  file_stats, save_result, draws, write_faults, other_session,
                  last_writer, args, ret, users>>

\* the rest of a run once the session holds spots: the selected spot is
\* stored
EditorRun(name, spots, current_action, selection) ==
    /\ editor.runs < MaxRuns
    /\ editor' = [spots |-> store_current(spots, selection),
                  current_action |-> current_action,
                  selection |-> Some(selection),
                  runs |-> editor.runs + 1]
    /\ op' = name
    /\ UNCHANGED editor_frame

\* another position is chosen in the 6-max table; the scenario stays when
\* the position has it and falls back to "open" otherwise
EditorSelectPosition ==
    \E position \in {"LJ", "BTN", "BB"} :
        /\ Get(editor.selection).table_type = "6-max"
        /\ position # Get(editor.selection).position
        /\ EditorRun("select_position", editor.spots, editor.current_action,
               [Get(editor.selection) EXCEPT
                   !.position = position,
                   !.scenario =
                       IF @ \in Elems(available_scenarios(position))
                       THEN @ ELSE "open"])

\* another scenario of the position is chosen
EditorSelectScenario ==
    \E scenario \in {"open", "vs_open_BTN"} :
        /\ Get(editor.selection).table_type = "6-max"
        /\ scenario \in Elems(available_scenarios(Get(editor.selection).position))
        /\ scenario # Get(editor.selection).scenario
        /\ EditorRun("select_scenario", editor.spots, editor.current_action,
               [Get(editor.selection) EXCEPT !.scenario = scenario])

\* the radio of the action in use
EditorSelectAction ==
    \E current_action \in Elems(EDITOR_ACTION_KEYS) \cup {"effacer"} :
        /\ current_action # editor.current_action
        /\ EditorRun("select_action", editor.spots, current_action,
               Get(editor.selection))

\* a click on a cell of the grid: the callback, then the script
EditorClick ==
    \E hand_code \in ClickHands :
        /\ EditorRun("update_hand_action",
               update_hand_action(editor.spots, editor.current_action,
                   make_spot_key(Get(editor.selection)), hand_code),
               editor.current_action, Get(editor.selection))

\* the button that copies the range of another spot into the selected one
EditorCopy ==
    \E copy_from_key \in Elems(editor.spots.order) :
        LET spot_key == make_spot_key(Get(editor.selection))
        IN  EditorRun("copy",
                dict_set(editor.spots, spot_key,
                    [editor.spots.at[spot_key] EXCEPT
                        !.hand_actions =
                            editor.spots.at[copy_from_key].hand_actions]),
                editor.current_action, Get(editor.selection))

\* the button that clears the hands of the selected spot
EditorClearHands ==
    LET spot_key == make_spot_key(Get(editor.selection))
    IN  EditorRun("clear_hands",
            dict_set(editor.spots, spot_key,
                [editor.spots.at[spot_key] EXCEPT !.hand_actions = <<>>]),
            editor.current_action, Get(editor.selection))

\* the button that clears every range of the session
EditorClearAll ==
    EditorRun("clear_all", [order |-> <<>>, at |-> <<>>],
        editor.current_action, Get(editor.selection))

NextEditor ==
    \/ EditorSelectPosition
    \/ EditorSelectScenario
    \/ EditorSelectAction
    \/ EditorClick
    \/ EditorCopy
    \/ EditorClearHands
    \/ EditorClearAll

SpecEditor == InitEditor /\ [][NextEditor]_vars

\* the document {"version": 2, "spots": export_spots} of the download and
\* of the save
export_data(spots) == [version |-> 2, spots |-> prepare_export_spots(spots)]

\* C21: round trip. For the range set the editor holds, loading its export
\* with spots_from_exported_data gives the same spot keys in the same order,
\* each with the same fields and the same hand-to-actions assignment, and
\* exporting what was loaded gives the same document again.
C21_ExportLoadRoundTrip ==
    LET exported == export_data(editor.spots)
        loaded == loaded_spots(exported)
    IN  /\ ~is_raise(spots_from_exported_data(exported))
        /\ loaded.order = editor.spots.order
        /\ \A key \in Elems(editor.spots.order) :
              /\ loaded.at[key].hand_actions = editor.spots.at[key].hand_actions
              /\ loaded.at[key] = editor.spots.at[key]
        /\ export_data(loaded) = exported

\* C21: after a click the editor holds two spots or more, one of them with a
\* hand under two actions and one of them without any hand, and the export
\* loads back to the same range set
C21_MixedRangeSetRoundTrip ==
    /\ op = "update_hand_action"
    /\ Len(editor.spots.order) >= 2
    /\ \E key \in Elems(editor.spots.order) :
          \E h \in DOMAIN editor.spots.at[key].hand_actions :
              Cardinality(editor.spots.at[key].hand_actions[h]) >= 2
    /\ \E key \in Elems(editor.spots.order) :
          DOMAIN editor.spots.at[key].hand_actions = {}
    /\ loaded_spots(export_data(editor.spots)) = editor.spots

\* the hands an exported spot lists under an action
ListedUnder(exported_spot, act) ==
    Elems(DictGet(exported_spot.actions, act, <<>>))

\* C22: every exported spot is a complete assignment over the 169 classes:
\* the lists together hold every class, a class is in the list "fold"
\* exactly when it is in no other list, and the list of each of the five
\* actions holds exactly the classes the editor has assigned the action to.
C22_ExportIsCompleteAssignment ==
    \A key \in Elems(editor.spots.order) :
        \A exported_spot \in {prepare_export_spots(editor.spots).at[key]} :
            LET non_fold == UNION {ListedUnder(exported_spot, act) :
                                      act \in Elems(EDITOR_ACTION_KEYS)}
                fold == ListedUnder(exported_spot, "fold")
                hand_actions == editor.spots.at[key].hand_actions
            IN  /\ DOMAIN exported_spot.actions \subseteq Elems(ACTION_KEYS)
                /\ fold \cup non_fold = ALL_HANDS
                /\ fold \cap non_fold = {}
                /\ \A act \in Elems(EDITOR_ACTION_KEYS) :
                      ListedUnder(exported_spot, act) =
                          {h \in DOMAIN hand_actions : act \in hand_actions[h]}

\* C22: after a click the export of the selected spot lists AA under two
\* actions and 168 classes under fold
C22_MixedHandExported ==
    LET exported_spot ==
            prepare_export_spots(editor.spots).at[
                make_spot_key(Get(editor.selection))]
    IN  /\ op = "update_hand_action"
        /\ editor.runs = MaxRuns
        /\ AA \in ListedUnder(exported_spot, "open")
        /\ AA \in ListedUnder(exported_spot, "call")
        /\ AA \notin ListedUnder(exported_spot, "fold")
        /\ Len(exported_spot.actions.fold) = 168

---------------------------------------------------------------------------
(* SpecGrid: the label of every cell of the 13x13 grid, as the trainer, the *)
(* editor and the correction grid of the application compute it             *)

\* canonical_hand_from_indices of range_editor_moduleV2.py
editor_canonical_hand_from_indices(i, j) ==
    LET r1 == RANKS[i + 1]
        r2 == RANKS[j + 1]
        idx1 == Index(RANKS, r1)
        idx2 == Index(RANKS, r2)
        hi == IF idx1 < idx2 THEN r1 ELSE r2
        lo == IF idx1 < idx2 THEN r2 ELSE r1
    IN  IF i = j THEN <<r1, r2>>
        ELSE IF i < j THEN <<hi, lo, "s">>
        ELSE <<hi, lo, "o">>

\* canonical_grid of appV3.py: min and max of the two ranks by their index
canonical_grid(i, j) ==
    LET r1 == RANKS[i + 1]
        r2 == RANKS[j + 1]
        hi == IF Index(RANKS, r2) < Index(RANKS, r1) THEN r2 ELSE r1
        lo == IF Index(RANKS, r2) > Index(RANKS, r1) THEN r2 ELSE r1
    IN  IF i = j THEN <<r1, r2>>
        ELSE <<hi, lo, IF i < j THEN "s" ELSE "o">>

InitGrid ==
    /\ SessionInit
    /\ write_faults = FALSE
    /\ op = "init"
    /\ args \in [i : 0..(Len(RANKS) - 1), j : 0..(Len(RANKS) - 1)]
    /\ ret = None

TrainerLabelStep ==
    /\ ret = None
    /\ ret' = Some(canonical_hand_from_indices(args.i, args.j))
    /\ op' = "canonical_hand_from_indices"
    /\ UNCHANGED <<session_vars, args>>

EditorLabelStep ==
    /\ ret = None
    /\ ret' = Some(editor_canonical_hand_from_indices(args.i, args.j))
    /\ op' = "editor_canonical_hand_from_indices"
    /\ UNCHANGED <<session_vars, args>>

GridLabelStep ==
    /\ ret = None
    /\ ret' = Some(canonical_grid(args.i, args.j))
    /\ op' = "canonical_grid"
    /\ UNCHANGED <<session_vars, args>>

NextGrid == TrainerLabelStep \/ EditorLabelStep \/ GridLabelStep

SpecGrid == InitGrid /\ [][NextGrid]_vars

\* C23: the label computed for a coordinate is a pair of one rank on the
\* diagonal, and otherwise the higher rank, the lower rank and "s" above
\* the diagonal (i < j), "o" below it (i > j); no other coordinate has the
\* same label, HAND_TO_COORD gives the coordinate back, there are 169
\* labels, and the trainer, the editor and the correction grid compute the
\* same label.
C23_LabelBijection ==
    (ret # None) =>
        LET label == Get(ret)
            i == args.i
            j == args.j
        IN  /\ label = canonical_hand_from_indices(i, j)
            /\ label = editor_canonical_hand_from_indices(i, j)
            /\ label = canonical_grid(i, j)
            /\ (i = j) => (Len(label) = 2 /\ label[1] = label[2]
                              /\ label[1] = RANKS[i + 1])
            /\ (i # j) =>
                  /\ Len(label) = 3
                  /\ Index(RANKS, label[1]) < Index(RANKS, label[2])
                  /\ {label[1], label[2]} = {RANKS[i + 1], RANKS[j + 1]}
                  /\ label[3] = (IF i < j THEN "s" ELSE "o")
            /\ \A c \in COORDS :
                  (canonical_hand_from_indices(c[1], c[2]) = label)
                      => (c = <<i, j>>)
            /\ label \in ALL_HANDS
            /\ HAND_TO_COORD[label] = <<i, j>>
            /\ Cardinality(ALL_HANDS) = Len(RANKS) * Len(RANKS)

\* C23: the correction grid has labelled the cell of row K, column A: AKo
C23_OffsuitBelowDiagonal ==
    /\ op = "canonical_grid"
    /\ args = [i |-> 1, j |-> 0]
    /\ ret = Some(AKo)
    /\ HAND_TO_COORD[AKo] = <<1, 0>>

---------------------------------------------------------------------------
(* The transient training session *)

\* C24: the transient training session is replaced by every successful
\* new spot (a spot is present, not answered, without feedback) and is
\* discarded by a change of the training mode (no spot, no feedback, not
\* answered), so that an answer is only ever accepted for a spot of the
\* kind the selected mode draws: a free spot in free training, a spot of a
\* range in the two other modes.
C24_SessionDiscardedOnModeSwitch ==
    /\ [][(draws' = draws + 1)
             => (/\ current_spot' # None
                 /\ last_feedback' = None
                 /\ answered_current_spot' = FALSE)]_vars
    /\ [][(trainer_mode' # trainer_mode)
             => (/\ current_spot' = None
                 /\ last_feedback' = None
                 /\ answered_current_spot' = FALSE)]_vars
    /\ [][(~answered_current_spot /\ answered_current_spot')
             => ((trainer_mode = "Entrainement libre")
                    <=> (Get(current_spot).spot_key = None))]_vars

---------------------------------------------------------------------------
(* The scenario "open" of the big blind *)

\* a key whose position is "BB" and whose scenario is "open"
BigBlindOpen(key) ==
    /\ Len(key) >= 4
    /\ key[2] = "BB"
    /\ SubSeq(key, 4, Len(key)) = <<"open">>

\* C25 (as stated): a spot whose scenario is "open" and whose position is
\* "BB" is never returned by pick_spot_for_training, whatever the filters
\* and the pool.
C25_BigBlindOpenNeverPicked ==
    (ret # None /\ Get(ret) # None) => ~BigBlindOpen(Get(Get(ret)))

\* C25 (amended): when at least one key of the pool passes the filtering
\* loop, no "open" spot of the big blind is in the candidate pool and none is
\* returned; when no key passes, the candidate pool is the whole pool.
C25_BigBlindOpenOnlyByFallback ==
    LET matching == PickMatching
        pool == pick_pool(args.available_spot_keys, args.pos_choice,
                          args.stack_choice_label, args.table_type_filter)
    IN  /\ (matching # {}) =>
              /\ \A key \in Elems(pool) : ~BigBlindOpen(key)
              /\ (ret # None /\ Get(ret) # None) =>
                    ~BigBlindOpen(Get(Get(ret)))
        /\ (matching = {}) => (pool = args.available_spot_keys)
        /\ \A key \in matching : ~BigBlindOpen(key)

\* C25: the button's spot is picked from a pool that also holds the "open"
\* spot of the big blind, no filter being set on position or stack
C25_OtherKeyPickedBesideBigBlindOpen ==
    /\ op = "pick_spot_for_training"
    /\ args.available_spot_keys = <<K_BBOPEN, K_BTN>>
    /\ args.table_type_filter = "6-max"
    /\ args.pos_choice = "Aleatoire"
    /\ args.stack_choice_label = "Aleatoire"
    /\ ret = Some(Some(K_BTN))

---------------------------------------------------------------------------
(* SpecBook: the ledger of the session under every sequence of update_stats *)
(* and resets, from the empty ledger                                        *)

\* how many answers a ledger records at most before it is reset
MaxBook == 4

BookKeys == {K_BTN, K_BB, K_CO8}

InitBook ==
    /\ SessionInit
    /\ write_faults = FALSE
    /\ op = "init"
    /\ args = None
    /\ ret = None

\* update_stats on the ledger of the session
BookUpdate ==
    /\ Len(trainer_stats.history) < MaxBook
    /\ \E spot_key \in BookKeys, success \in BOOLEAN :
          /\ trainer_stats' = update_stats(trainer_stats, spot_key, success)
          /\ args' = [spot_key |-> spot_key, success |-> success]
    /\ op' = "update_stats"
    /\ UNCHANGED <<current_spot, last_feedback, answered_current_spot,
                   trainer_mode, supabase_stats, file_stats, save_vars, draws,
                   env_vars, ret>>

NextBook == BookUpdate \/ reset_stats

SpecBook == InitBook /\ [][NextBook]_vars

RECURSIVE SumOfSpots(_, _, _)
\* the sum of one counter over the spots keys of a ledger
SumOfSpots(stats, keys, counter) ==
    IF keys = {} THEN 0
    ELSE LET key == CHOOSE k \in keys : TRUE
         IN  stats.spots[key][counter]
                 + SumOfSpots(stats, keys \ {key}, counter)

\* how many events of the history are answers on the spot with the outcome
EventsOf(stats, spot_key, success) ==
    Cardinality({n \in DOMAIN stats.history :
                    stats.history[n] = [spot_key |-> spot_key,
                                        success |-> success]})

\* C26: ledger consistency. From the empty ledger, after any sequence of
\* update_stats and resets, the global success count is the sum of the
\* success counts of the spots, the global fail count is the sum of their
\* fail counts, the history has success + fail events, every event is on a
\* spot of the ledger, and the history holds as many successes and fails of
\* each spot as the counters of the spot say.
C26_LedgerConsistent ==
    /\ trainer_stats.total.success =
          SumOfSpots(trainer_stats, DOMAIN trainer_stats.spots, "success")
    /\ trainer_stats.total.fail =
          SumOfSpots(trainer_stats, DOMAIN trainer_stats.spots, "fail")
    /\ Len(trainer_stats.history) =
          trainer_stats.total.success + trainer_stats.total.fail
    /\ \A n \in DOMAIN trainer_stats.history :
          trainer_stats.history[n].spot_key \in DOMAIN trainer_stats.spots
    /\ \A spot_key \in DOMAIN trainer_stats.spots :
          /\ EventsOf(trainer_stats, spot_key, TRUE) =
                trainer_stats.spots[spot_key].success
          /\ EventsOf(trainer_stats, spot_key, FALSE) =
                trainer_stats.spots[spot_key].fail

\* C26: three answers on two spots recorded after a reset, two right and
\* one wrong
C26_ThreeAnswersOnTwoSpots ==
    /\ op = "update_stats"
    /\ save_result = "ok"
    /\ Len(trainer_stats.history) = 3
    /\ DOMAIN trainer_stats.spots = {K_BTN, K_BB}
    /\ trainer_stats.total = [success |-> 2, fail |-> 1]
    /\ trainer_stats.spots[K_BTN] = [success |-> 1, fail |-> 1]

---------------------------------------------------------------------------
(* SpecUsers: one browser session in which the logged-in user changes *)

\* the head of run_trainer for a user who is not the one of the session,
\* where the feedback of the last answer is kept
switch_user_keeping_feedback ==
    /\ \E username \in Elems(USERS) :
          /\ username # users.trainer_user
          /\ users' = [trainer_user |-> username,
                       away |-> [supabase_stats |-> supabase_stats,
                                 file_stats |-> file_stats]]
    /\ supabase_stats' = users.away.supabase_stats
    /\ file_stats' = users.away.file_stats
    /\ \E supabase_ok \in write_outcomes :
          trainer_stats' = IF supabase_ok THEN Stored(users.away.supabase_stats)
                           ELSE Stored(users.away.file_stats)
    /\ current_spot' = None
    /\ answered_current_spot' = FALSE
    /\ trainer_mode' = MODES[2]
    /\ op' = "switch_user"
    /\ UNCHANGED <<last_feedback, save_vars, draws, write_faults,
                   other_session, editor, args, ret>>

\* the head of run_trainer for a user who is not the one of the session,
\* where the spot on screen is kept
switch_user_keeping_spot ==
    /\ \E username \in Elems(USERS) :
          /\ username # users.trainer_user
          /\ users' = [trainer_user |-> username,
                       away |-> [supabase_stats |-> supabase_stats,
                                 file_stats |-> file_stats]]
    /\ supabase_stats' = users.away.supabase_stats
    /\ file_stats' = users.away.file_stats
    /\ \E supabase_ok \in write_outcomes :
          trainer_stats' = IF supabase_ok THEN Stored(users.away.supabase_stats)
                           ELSE Stored(users.away.file_stats)
    /\ trainer_mode' = MODES[2]
    /\ op' = "switch_user"
    /\ UNCHANGED <<current_spot, last_feedback, answered_current_spot,
                   save_vars, draws, write_faults, other_session, editor,
                   args, ret>>

\* the user logs out and another user logs in; the next run of run_trainer
\* finds trainer_user different from username: the ledger of the new user
\* is loaded, the spot, the feedback and the answered flag are cleared. The
\* stores now read and written are those of the new user. The widgets were
\* not drawn while the login form was shown, so the mode radio is back on
\* its default.
switch_user ==
    /\ \E username \in Elems(USERS) :
          /\ username # users.trainer_user
          /\ users' = [trainer_user |-> username,
                       away |-> [supabase_stats |-> supabase_stats,
                                 file_stats |-> file_stats]]
    /\ supabase_stats' = users.away.supabase_stats
    /\ file_stats' = users.away.file_stats
    /\ \E supabase_ok \in write_outcomes :
          trainer_stats' = IF supabase_ok THEN Stored(users.away.supabase_stats)
                           ELSE Stored(users.away.file_stats)
    /\ current_spot' = None
    /\ last_feedback' = None
    /\ answered_current_spot' = FALSE
    /\ trainer_mode' = MODES[2]
    /\ op' = "switch_user"
    /\ UNCHANGED <<save_vars, draws, write_faults, other_session, editor,
                   args, ret>>

NextUsers ==
    \/ nouvelle_main
    \/ on_answer("open")
    \/ reset_stats
    \/ \E mode \in Elems(MODES) : select_mode(mode)
    \/ switch_user

SpecUsers == Init /\ [][NextUsers]_vars

\* C27: session invariant. The answered flag is set exactly when a last
\* feedback is stored, and then a current spot exists; a successful new
\* spot, a reset and a change of user each leave the session not answered
\* and without feedback.
C27_AnsweredIffFeedback ==
    /\ [](answered_current_spot <=> (last_feedback # None))
    /\ [](answered_current_spot => (current_spot # None))
    /\ [][(\/ draws' = draws + 1
           \/ op' = "reset"
           \/ users'.trainer_user # users.trainer_user)
             => (~answered_current_spot' /\ last_feedback' = None)]_vars

\* C27: the second user has answered a spot: the flag, the feedback and the
\* spot are there together
C27_SecondUserAnswered ==
    /\ users.trainer_user = USERS[2]
    /\ answered_current_spot
    /\ last_feedback # None
    /\ current_spot # None
    /\ op = "answer_scored"

\* C28: user isolation. The step in which the user of the session changes
\* loads the ledger stored for the new user and clears the current spot,
\* the last feedback and the answered flag, so that an answer is only ever
\* processed for a spot drawn by the user who is logged in; no other step
\* touches the stored ledger of the user who is logged out, and the ledger
\* of the session is the one stored for its user.
C28_UserSwitchClearsSession ==
    /\ [][(users'.trainer_user # users.trainer_user)
             => (/\ trainer_stats' = Stored(users.away.supabase_stats)
                 /\ supabase_stats' = users.away.supabase_stats
                 /\ users'.away.supabase_stats = supabase_stats
                 /\ current_spot' = None
                 /\ last_feedback' = None
                 /\ answered_current_spot' = FALSE)]_vars
    /\ [][(users'.trainer_user = users.trainer_user)
             => (users'.away = users.away)]_vars
    /\ [][(~answered_current_spot /\ answered_current_spot')
             => (/\ users' = users
                 /\ current_spot # None
                 /\ current_spot' = current_spot)]_vars
    /\ [](trainer_stats = Stored(supabase_stats))

\* C28: the first user is back after the second one trained: each has a
\* ledger of one answer, the two differ, and no spot is on screen
C28_BackToFirstUser ==
    /\ op = "switch_user"
    /\ users.trainer_user = USERS[1]
    /\ current_spot = None
    /\ last_feedback = None
    /\ ~answered_current_spot
    /\ users.away.supabase_stats # None
    /\ Len(Stored(users.away.supabase_stats).history) = 1
    /\ Len(trainer_stats.history) = 1
    /\ trainer_stats # Stored(users.away.supabase_stats)

---------------------------------------------------------------------------
(* SpecFrame: the session with the value of every "Nouvelle main" request   *)
(* kept in ret, from an empty ledger and from a stored ledger in which the  *)
(* two spots of the default ranges are mastered                             *)

\* five right answers on each spot of the default ranges
MASTERED_LEDGER ==
    Recorded(Answers(K_BTN, TRUE, 5) \o Answers(K_BB, TRUE, 5))

InitFrame ==
    /\ \E stored \in {None, Some(MASTERED_LEDGER)} :
          /\ trainer_stats = Stored(stored)
          /\ supabase_stats = stored
          /\ file_stats = stored
    /\ current_spot = None
    /\ last_feedback = None
    /\ answered_current_spot = FALSE
    /\ trainer_mode = MODES[2]
    /\ save_result = "none"
    /\ other_session = None
    /\ last_writer = "none"
    /\ draws = 0
    /\ write_faults = FALSE
    /\ editor = EDITOR_IDLE
    /\ users = FIRST_LOGIN
    /\ op = "init"
    /\ args = None
    /\ ret = None

\* the "Nouvelle main" button on the 6-max table, the value returned by
\* new_spot_and_hand kept in ret
nouvelle_main_observed ==
    /\ draws < MaxDraws
    /\ \E ranges_source \in {"Ranges par defaut", "Ranges personnelles"},
          default_ranges \in {EMPTY_RANGES, DEFAULT_RANGES} :
          \E new_spot \in new_spot_and_hand(trainer_mode, "6-max", "Aleatoire",
                             "Aleatoire", ranges_source, default_ranges,
                             EMPTY_RANGES, trainer_stats, 80, <<"Tous">>,
                             DealWindow) :
              /\ nouvelle_main_ending(new_spot)
              /\ ret' = Some(new_spot)
    /\ UNCHANGED args

NextFrame ==
    \/ nouvelle_main_observed
    \/ \E action_key \in {"fold", "open"} : on_answer(action_key)
    \/ reset_stats
    \/ \E mode \in Elems(MODES) : select_mode(mode)

SpecFrame == InitFrame /\ [][NextFrame]_vars

\* C29: a "Nouvelle main" request that yields no spot changes nothing in the
\* session: the current spot with its hand, the last feedback, the answered
\* flag and the ledger (in the session and in the stores) are as before.
\* The spot, the feedback and the flag only change in a successful draw, in
\* an accepted answer or in a reset.
C29_NoSpotChangesNothing ==
    /\ [][(ret' = Some(None) /\ ret' # ret)
             => (/\ current_spot' = current_spot
                 /\ last_feedback' = last_feedback
                 /\ answered_current_spot' = answered_current_spot
                 /\ trainer_stats' = trainer_stats
                 /\ supabase_stats' = supabase_stats
                 /\ file_stats' = file_stats
                 /\ draws' = draws)]_vars
    /\ [][(<<current_spot, last_feedback, answered_current_spot>>'
              # <<current_spot, last_feedback, answered_current_spot>>)
             => (\/ /\ draws' = draws + 1
                    /\ ret' = Some(current_spot')
                    /\ current_spot' # None
                 \/ /\ ~answered_current_spot
                    /\ answered_current_spot'
                    /\ current_spot' = current_spot
                 \/ /\ op' = "reset"
                    /\ current_spot' = None
                    /\ trainer_stats' = default_stats_dict)]_vars

\* C29: in Focus leak, with every spot of the range mastered, the request
\* has yielded no spot; the spot drawn before is still there and its answer
\* has been accepted and recorded once
C29_AnsweredAroundFailedRequest ==
    /\ ret = Some(None)
    /\ trainer_mode = "Focus leak"
    /\ draws = 1
    /\ current_spot # None
    /\ Get(current_spot).spot_key = Some(K_BTN)
    /\ answered_current_spot
    /\ op = "answer_scored"
    /\ Len(trainer_stats.history) = 11

---------------------------------------------------------------------------
(* Clicks on the grid of the editor *)

\* the actions the editor holds for a hand of a spot of the session
ActsOf(spots, spot_key, hand_code) ==
    DictGet(spots.at[spot_key].hand_actions, hand_code, {})

\* the spots of the session but one are the same in both
OtherSpotsSame(before, after, spot_key) ==
    /\ after.order = before.order
    /\ \A key \in Elems(before.order) \ {spot_key} :
          after.at[key] = before.at[key]

\* C30: clicks on the grid toggle. On the spot selected in any state the
\* editor reaches, a click on a hand with one of the five actions changes
\* the assignment and a second click with the same action restores it, and
\* a click with "effacer" leaves the hand without action. In every state
\* each hand present in an assignment has a non-empty set of the five
\* non-fold actions. A click step toggles the action in use on one hand (or
\* removes the hand, for "effacer") and changes no other hand and no
\* other spot.
C30_ClicksToggle ==
    /\ [](LET spot_key == make_spot_key(Get(editor.selection))
          IN  \A hand_code \in ClickHands \cup {AKo} :
                 /\ \A act \in Elems(EDITOR_ACTION_KEYS) :
                       LET once == update_hand_action(editor.spots, act,
                                       spot_key, hand_code)
                       IN  /\ once # editor.spots
                           /\ update_hand_action(once, act, spot_key, hand_code)
                                 = editor.spots
                 /\ hand_code \notin
                       DOMAIN update_hand_action(editor.spots, "effacer",
                                  spot_key, hand_code).at[spot_key].hand_actions)
    /\ [](\A key \in Elems(editor.spots.order) :
             \A h \in DOMAIN editor.spots.at[key].hand_actions :
                 /\ editor.spots.at[key].hand_actions[h] # {}
                 /\ editor.spots.at[key].hand_actions[h]
                       \subseteq Elems(EDITOR_ACTION_KEYS))
    /\ [][(op' = "update_hand_action") =>
            LET spot_key == make_spot_key(Get(editor.selection))
            IN  /\ OtherSpotsSame(editor.spots, editor'.spots, spot_key)
                /\ \E hand_code \in ClickHands :
                      /\ \A h \in ALL_HANDS \ {hand_code} :
                            ActsOf(editor'.spots, spot_key, h)
                                = ActsOf(editor.spots, spot_key, h)
                      /\ ActsOf(editor'.spots, spot_key, hand_code) =
                            IF editor.current_action = "effacer" THEN {}
                            ELSE IF editor.current_action
                                       \in ActsOf(editor.spots, spot_key, hand_code)
                            THEN ActsOf(editor.spots, spot_key, hand_code)
                                     \ {editor.current_action}
                            ELSE ActsOf(editor.spots, spot_key, hand_code)
                                     \cup {editor.current_action}]_vars

\* C30: on the button's spot of the default ranges, a click with "effacer"
\* has removed AA; AKs keeps its action and the big blind's spot its hands
C30_AcesErased ==
    /\ op = "update_hand_action"
    /\ editor.current_action = "effacer"
    /\ make_spot_key(Get(editor.selection)) = K_BTN
    /\ DOMAIN editor.spots.at[K_BTN].hand_actions = {AKs}
    /\ editor.spots.at[K_BTN].hand_actions[AKs] = {"open"}
    /\ K_BB \in Elems(editor.spots.order)
    /\ editor.spots.at[K_BB].hand_actions[AKs] = {"call", "threebet"}

=============================================================================
